---- MODULE Spec2Model ----
(***************************************************************************)
(* Last-position lookup engine of gps-last-position-api: the two Redis     *)
(* repositories (device namespace gps:last:, mobile namespace              *)
(* mobile:last:), the two services on top of them, the validation          *)
(* middleware and the controllers' status mapping.                         *)
(***************************************************************************)
EXTENDS Integers, Sequences, FiniteSets, TLC

VARIABLES store, last, proc

vars == <<store, last, proc>>

(***************************************************************************)
(* Bounds of the model.                                                    *)
(***************************************************************************)
MaxBatch == 2       \* longest enumerated short batch
MaxKeys == 2        \* most keys the producers keep in the database at once
MaxOffset == 1      \* largest enumerated offset
OverCeiling == 1    \* long batches have maxDevices .. maxDevices+OverCeiling entries

(***************************************************************************)
(* JavaScript values.                                                      *)
(***************************************************************************)
Undef == [t |-> "undefined"]
Null == [t |-> "null"]
Str(s) == [t |-> "string", s |-> s]
Num(n) == [t |-> "number", n |-> n]

\* JavaScript truthiness (the `!x` and `a || b` tests of the source)
Truthy(v) ==
  CASE v.t = "undefined" -> FALSE
    [] v.t = "null" -> FALSE
    [] v.t = "string" -> v.s # <<>>
    [] v.t = "number" -> v.n # 0
    [] OTHER -> TRUE

\* a || b
Or(a, b) == IF Truthy(a) THEN a ELSE b

Whitespace == {" "}

RECURSIVE TrimLeft(_)
TrimLeft(s) ==
  IF s # <<>> /\ Head(s) \in Whitespace THEN TrimLeft(Tail(s)) ELSE s

RECURSIVE TrimRight(_)
TrimRight(s) ==
  IF s # <<>> /\ s[Len(s)] \in Whitespace
  THEN TrimRight(SubSeq(s, 1, Len(s) - 1))
  ELSE s

\* String.prototype.trim
Trim(s) == TrimRight(TrimLeft(s))

(***************************************************************************)
(* Identifiers and namespaces.                                             *)
(***************************************************************************)
Id1 == <<"a">>
Id2 == <<"b">>
KeyIds == {Id1, Id2}

Namespaces == {"gps", "mobile"}


OtherId(id) == IF id = Id1 THEN Id2 ELSE Id1

(***************************************************************************)
(* Position objects: a JavaScript object is a record over the property     *)
(* names the engine reads; an absent property is Undef.                    *)
(***************************************************************************)
EmptyObj ==
  [t |-> "object", deviceId |-> Undef, userId |-> Undef, lat |-> Undef,
   lng |-> Undef, timestamp |-> Undef, receivedAt |-> Undef,
   updatedAt |-> Undef, metadata |-> Undef, name |-> Undef,
   retrievedAt |-> Undef, deviceInfo |-> Undef, appVersion |-> Undef,
   batteryLevel |-> Undef, networkType |-> Undef]

IdOf(ns, obj) == IF ns = "gps" THEN obj.deviceId ELSE obj.userId

WithId(ns, obj, idv) ==
  IF ns = "gps" THEN [obj EXCEPT !.deviceId = idv]
  ELSE [obj EXCEPT !.userId = idv]

(***************************************************************************)
(* Stored text.  A Redis string is modelled by what the readers of the     *)
(* source can tell about it: the empty string, a text that is not JSON, a  *)
(* JSON text (with the value it denotes), a decimal number text, or a      *)
(* plain identifier/name text.                                             *)
(***************************************************************************)
EmptyText == [k |-> "empty"]
Malformed == [k |-> "malformed"]
Json(v) == [k |-> "json", v |-> v]
NumText(n) == [k |-> "num", n |-> n]
Raw(s) == [k |-> "raw", s |-> s]

\* outcomes of a call: a returned value or a raised error, with the number
\* of storage operations (connect and Redis commands) issued so far
Ret(v, n) == [k |-> "return", v |-> v, ops |-> n]
Throw(e, n) == [k |-> "throw", e |-> e, ops |-> n]

\* mutation of JSON.parse: a text that is not JSON parses to null
JSONparseLenient(txt) ==
  CASE txt.k = "json" -> [k |-> "return", v |-> txt.v]
    [] txt.k = "num" -> [k |-> "return", v |-> Num(txt.n)]
    [] OTHER -> [k |-> "return", v |-> Null]

\* JSON.parse: the value of a JSON text, the number of a number text, a
\* SyntaxError for anything else
JSONparse(txt) ==
  CASE txt.k = "json" -> [k |-> "return", v |-> txt.v]
    [] txt.k = "num" -> [k |-> "return", v |-> Num(txt.n)]
    [] OTHER -> [k |-> "throw", e |-> "SyntaxError"]

\* the JavaScript string a Redis reply text is (for the truthiness tests)
TextTruthy(txt) == txt.k # "empty"

\* parseFloat of a hash field
parseFloat(txt) ==
  IF txt.k = "num" THEN Num(txt.n) ELSE [t |-> "NaN"]

\* a reply text as a JavaScript string: its characters when it is a plain
\* text, otherwise a non-empty string standing for the text itself
FieldStr(txt) ==
  CASE txt.k = "raw" -> Str(txt.s)
    [] txt.k = "empty" -> Str(<<>>)
    [] OTHER -> Str(<<txt>>)

(***************************************************************************)
(* Redis values.                                                           *)
(***************************************************************************)
Absent == [type |-> "none"]
RString(txt) == [type |-> "string", val |-> txt]
RHash(f) == [type |-> "hash", fields |-> f]
RList(es) == [type |-> "list", elems |-> es]
RZset(ms) == [type |-> "zset", members |-> ms]
RSet == [type |-> "set"]

\* the value stored under prefix + id in a namespace's keyspace
ValueAt(ks, id) == IF id \in DOMAIN ks THEN ks[id] ELSE Absent

\* hashData.<field> of an HGETALL reply
HashProp(f, name) == IF name \in DOMAIN f THEN FieldStr(f[name]) ELSE Undef

\* LINDEX key -1: the element at the tail of the list, null when empty
LIndexLast(es) == IF es = <<>> THEN Null ELSE [t |-> "text", txt |-> es[Len(es)]]

\* ZREVRANGE key 0 0: the member with the highest score
ZRevRange00(ms) ==
  IF ms = {} THEN <<>>
  ELSE <<(CHOOSE m \in ms : \A o \in ms : o.score <= m.score).member>>

(***************************************************************************)
(* I/O failures.  A fail plan gives, per key, the Redis command of that    *)
(* key's lookup that raises (0: none, 1: EXISTS, 2: TYPE, 3: the read).    *)
(***************************************************************************)
FailAt(fail, id) == IF id \in DOMAIN fail THEN fail[id] ELSE 0

\* a fail plan may also name two steps that belong to no key: the
\* repository's connect() and the KEYS scan (1: the step raises)
Connecting == <<"connect()">>
Scanning == <<"keys()">>

(***************************************************************************)
(* Repositories (src/unnamed/part_005).                                    *)
(***************************************************************************)
\* the hash branch of getDataByType
HashRecord(ns, f, id) ==
  LET meta == IF Truthy(HashProp(f, "metadata"))
              THEN JSONparse(f["metadata"])
              ELSE [k |-> "return", v |-> Null]
      idv == IF ns = "gps"
             THEN Or(HashProp(f, "deviceId"), Str(id))
             ELSE Or(HashProp(f, "userId"), Or(HashProp(f, "deviceId"), Str(id)))
      rec == [t |-> "object",
              deviceId |-> IF ns = "gps" THEN idv ELSE Undef,
              userId |-> IF ns = "gps" THEN Undef ELSE idv,
              lat |-> IF Truthy(HashProp(f, "lat")) THEN parseFloat(f["lat"]) ELSE Null,
              lng |-> IF Truthy(HashProp(f, "lng")) THEN parseFloat(f["lng"]) ELSE Null,
              timestamp |-> Or(HashProp(f, "timestamp"), Null),
              receivedAt |-> Or(HashProp(f, "receivedAt"), Null),
              updatedAt |-> Or(HashProp(f, "updatedAt"), Null),
              metadata |-> IF meta.k = "return" THEN meta.v ELSE Undef,
              name |-> Or(HashProp(f, "name"), Or(HashProp(f, "deviceName"), Null)),
              retrievedAt |-> Undef, deviceInfo |-> Undef, appVersion |-> Undef,
              batteryLevel |-> Undef, networkType |-> Undef]
  IN IF meta.k = "throw" THEN meta ELSE [k |-> "return", v |-> rec]

\* mutation of getDataByType: an unsupported type is raised as an error
getDataByTypeStrict(ns, v, id, f, n) ==
  LET read(r) == IF r.k = "throw" THEN Throw(r.e, n + 2) ELSE Ret(r.v, n + 2)
      parsed(txt) == read(JSONparse(txt))
  IN
  IF f = 2 THEN Throw("io", n + 1)
  ELSE IF v.type \in {"string", "hash", "list", "zset"} /\ f = 3 THEN Throw("io", n + 2)
  ELSE CASE v.type = "string" ->
              IF ~TextTruthy(v.val) THEN Ret(Null, n + 2) ELSE parsed(v.val)
         [] v.type = "hash" ->
              IF DOMAIN v.fields = {} THEN Ret(Null, n + 2)
              ELSE read(HashRecord(ns, v.fields, id))
         [] v.type = "list" ->
              LET e == LIndexLast(v.elems)
              IN IF e = Null \/ ~TextTruthy(e.txt) THEN Ret(Null, n + 2) ELSE parsed(e.txt)
         [] v.type = "zset" ->
              LET z == ZRevRange00(v.members)
              IN IF Len(z) = 0 THEN Ret(Null, n + 2) ELSE parsed(z[1])
         [] OTHER -> Throw("unsupported", n + 1)

\* getDataByType(key, id): n storage operations were issued before the call
getDataByType(ns, v, id, f, n) ==
  LET read(r) == IF r.k = "throw" THEN Throw(r.e, n + 2) ELSE Ret(r.v, n + 2)
      parsed(txt) == read(JSONparse(txt))
  IN
  IF f = 2 THEN Throw("io", n + 1)
  ELSE IF v.type \in {"string", "hash", "list", "zset"} /\ f = 3 THEN Throw("io", n + 2)
  ELSE CASE v.type = "string" ->
              IF ~TextTruthy(v.val) THEN Ret(Null, n + 2) ELSE parsed(v.val)
         [] v.type = "hash" ->
              IF DOMAIN v.fields = {} THEN Ret(Null, n + 2)
              ELSE read(HashRecord(ns, v.fields, id))
         [] v.type = "list" ->
              LET e == LIndexLast(v.elems)
              IN IF e = Null \/ ~TextTruthy(e.txt) THEN Ret(Null, n + 2) ELSE parsed(e.txt)
         [] v.type = "zset" ->
              LET z == ZRevRange00(v.members)
              IN IF Len(z) = 0 THEN Ret(Null, n + 2) ELSE parsed(z[1])
         [] OTHER -> Ret(Null, n + 1)

\* {...position}: the properties of a parsed value that the engine reads
Spread(v) == IF v.t = "object" THEN v ELSE EmptyObj

\* the reading of the wall clock (new Date().toISOString()): one fixed
\* instant, no operation of the engine depends on it
Now == Str(<<"t">>)

\* getLastPosition(id)
getLastPosition(ns, ks, id, fail) ==
  LET v == ValueAt(ks, id)
      f == FailAt(fail, id)
  IN
  IF FailAt(fail, Connecting) = 1 THEN Throw("io", 1)
  ELSE IF f = 1 THEN Throw("io", 2)
  ELSE IF v.type = "none" THEN Ret(Null, 2)
  ELSE LET fixed(sp) == IF ns = "gps" THEN sp
                        ELSE [sp EXCEPT !.userId = Or(sp.userId, Str(id))]
           stamped(d) ==
             IF d.k = "throw" THEN d
             ELSE IF ~Truthy(d.v) THEN Ret(Null, d.ops)
             ELSE Ret([fixed(Spread(d.v)) EXCEPT !.retrievedAt = Now], d.ops)
       IN stamped(getDataByType(ns, v, id, f, 2))

\* the storage operations of the lookups lo..hi of a loop, summed by halves
RECURSIVE SumOps(_, _, _)
SumOps(results, lo, hi) ==
  IF lo > hi THEN 0
  ELSE IF lo = hi THEN results[lo].ops
  ELSE SumOps(results, lo, (lo + hi) \div 2)
       + SumOps(results, (lo + hi) \div 2 + 1, hi)

\* mutation of getMultipleLoop: the first failing id ends the loop
getMultipleLoopAbort(ns, ks, ids, fail, n) ==
  LET reached(results, i) == \A j \in 1..i : results[j].k = "return"
      pushed(results) ==
        SelectSeq([i \in 1..Len(ids) |->
                     IF reached(results, i) THEN results[i] ELSE Ret(Null, 0)],
                  LAMBDA r : Truthy(r.v))
      values(kept) == [i \in 1..Len(kept) |-> kept[i].v]
      loop(results) == Ret(values(pushed(results)), n + SumOps(results, 1, Len(ids)))
  IN loop([i \in 1..Len(ids) |-> getLastPosition(ns, ks, ids[i], fail)])

\* the for loop of getMultipleLastPositions / getAllLastPositions with its
\* per-id try/catch: the records of the ids whose lookup returned one, in
\* the order of the ids
getMultipleLoop(ns, ks, ids, fail, n) ==
  LET pushed(r) == r.k = "return" /\ Truthy(r.v)
      values(kept) == [i \in 1..Len(kept) |-> kept[i].v]
      loop(results) ==
        Ret(values(SelectSeq(results, pushed)), n + SumOps(results, 1, Len(ids)))
  IN loop([i \in 1..Len(ids) |-> getLastPosition(ns, ks, ids[i], fail)])

\* getMultipleLastPositions(ids)
getMultipleLastPositions(ns, ks, ids, fail) ==
  IF FailAt(fail, Connecting) = 1 THEN Throw("io", 1)
  ELSE getMultipleLoop(ns, ks, ids, fail, 1)

\* getAllLastPositions(): keys is the reply of KEYS prefix*, in scan order
getAllLastPositions(ns, ks, keys, fail) ==
  IF FailAt(fail, Connecting) = 1 THEN Throw("io", 1)
  ELSE IF FailAt(fail, Scanning) = 1 THEN Throw("io", 2)
  ELSE IF Len(keys) = 0 THEN Ret(<<>>, 2)
  ELSE getMultipleLoop(ns, ks, keys, fail, 2)

\* a JavaScript boolean
Bool(b) == [t |-> "boolean", b |-> b]

\* the content test of hasLastPosition for a key of a supported type
HasContent(v) ==
  CASE v.type = "hash" -> DOMAIN v.fields # {}
    [] v.type = "string" -> TextTruthy(v.val)
    [] v.type = "list" -> Len(v.elems) > 0
    [] v.type = "zset" -> Cardinality(v.members) > 0

\* hasLastPosition(id): EXISTS, then TYPE and a content probe; a probe that
\* raises is caught and answered with the bare result of EXISTS
hasLastPosition(ks, id, fail) ==
  LET probe(v, f) ==
        IF f = 1 THEN Throw("io", 2)
        ELSE IF v.type = "none" THEN Ret(FALSE, 2)
        ELSE IF f = 2 THEN Ret(TRUE, 3)
        ELSE IF v.type \in {"hash", "string", "list", "zset"}
        THEN IF f = 3 THEN Ret(TRUE, 4) ELSE Ret(HasContent(v), 4)
        ELSE Ret(FALSE, 3)
  IN probe(ValueAt(ks, id), FailAt(fail, id))

(***************************************************************************)
(* Services (src/src/services).                                            *)
(***************************************************************************)
\* mutation of _formatPositionData: the gps view carries the name too
formatPositionDataNamed(position, format) ==
  CASE format \in {"gps", "mobile"} ->
         [t |-> "object", id |-> position.deviceId, lat |-> position.lat,
          lng |-> position.lng, name |-> Or(position.name, position.deviceId)]
    [] OTHER -> position

\* mutation of _formatPositionDataForMobile: the name without its fallback
formatPositionDataForMobileBare(position) ==
  [t |-> "object", id |-> position.userId, lat |-> position.lat,
   lng |-> position.lng, name |-> position.name]

\* _formatPositionData(position, format) of the device service
formatPositionData(position, format) ==
  CASE format = "gps" ->
         [t |-> "object", id |-> position.deviceId, lat |-> position.lat,
          lng |-> position.lng]
    [] format = "mobile" ->
         [t |-> "object", id |-> position.deviceId, lat |-> position.lat,
          lng |-> position.lng, name |-> Or(position.name, position.deviceId)]
    [] OTHER -> position

\* _formatPositionDataForMobile(position) of the mobile service
formatPositionDataForMobile(position) ==
  [t |-> "object", id |-> position.userId, lat |-> position.lat,
   lng |-> position.lng, name |-> Or(position.name, position.userId)]

\* the view a single or batch lookup of a namespace answers in: the
\* mobile service takes no format and returns the record itself
Project(ns, position, format) ==
  IF ns = "gps" THEN formatPositionData(position, format) ELSE position

\* the view of a full listing
ProjectListing(ns, position) ==
  IF ns = "gps" THEN formatPositionData(position, "gps")
  ELSE formatPositionDataForMobile(position)

\* error codes of the two services and middlewares
InvalidIdCode(ns) == IF ns = "gps" THEN "INVALID_DEVICE_ID" ELSE "INVALID_USER_ID"
MissingIdCode(ns) == IF ns = "gps" THEN "MISSING_DEVICE_ID" ELSE "MISSING_USER_ID"
IdTooLongCode(ns) == IF ns = "gps" THEN "DEVICE_ID_TOO_LONG" ELSE "USER_ID_TOO_LONG"
IdCharsCode(ns) ==
  IF ns = "gps" THEN "INVALID_DEVICE_ID_CHARACTERS" ELSE "INVALID_USER_ID_CHARACTERS"
InvalidIdsCode(ns) == IF ns = "gps" THEN "INVALID_DEVICE_IDS" ELSE "INVALID_USER_IDS"
TooManyCode(ns) == IF ns = "gps" THEN "TOO_MANY_DEVICES" ELSE "TOO_MANY_USERS"
MissingIdsCode(ns) == IF ns = "gps" THEN "MISSING_DEVICE_IDS" ELSE "MISSING_USER_IDS"
IdsTypeCode(ns) ==
  IF ns = "gps" THEN "INVALID_DEVICE_IDS_TYPE" ELSE "INVALID_USER_IDS_TYPE"
EmptyIdsCode(ns) == IF ns = "gps" THEN "EMPTY_DEVICE_IDS" ELSE "EMPTY_USER_IDS"
TooManyIdsCode(ns) ==
  IF ns = "gps" THEN "TOO_MANY_DEVICE_IDS" ELSE "TOO_MANY_USER_IDS"

\* the result object of a service call; ops counts the storage operations
Fail(code, n) ==
  [success |-> FALSE, code |-> code, data |-> Undef, summary |-> Undef,
   invalidIds |-> Undef, entity |-> Undef, ops |-> n]
Success(data, summary, entity, n) ==
  [success |-> TRUE, code |-> "", data |-> data, summary |-> summary,
   invalidIds |-> Undef, entity |-> entity, ops |-> n]

\* the services' test  !id || typeof id !== 'string' || id.trim() === ''
BlankId(idv) == ~Truthy(idv) \/ idv.t # "string" \/ Trim(idv.s) = <<>>

\* mutation of getEntityLastPosition: a raised error is answered as not found
getEntityLastPositionSwallow(ns, ks, idv, format, fail) ==
  IF BlankId(idv) THEN Fail(InvalidIdCode(ns), 0)
  ELSE LET answer(clean, r) ==
             IF r.k = "throw" \/ ~Truthy(r.v)
             THEN [Fail("POSITION_NOT_FOUND", r.ops) EXCEPT !.entity = Str(clean)]
             ELSE Success(Project(ns, r.v, format), Undef, Str(clean), r.ops)
       IN answer(Trim(idv.s), getLastPosition(ns, ks, Trim(idv.s), fail))

\* GPSLastPositionService.getDeviceLastPosition(deviceId, format) and
\* MobileLastPositionService.getUserLastPosition(userId)
getEntityLastPosition(ns, ks, idv, format, fail) ==
  IF BlankId(idv) THEN Fail(InvalidIdCode(ns), 0)
  ELSE LET answer(clean, r) ==
             IF r.k = "throw" THEN Fail("INTERNAL_ERROR", r.ops)
             ELSE IF ~Truthy(r.v)
             THEN [Fail("POSITION_NOT_FOUND", r.ops) EXCEPT !.entity = Str(clean)]
             ELSE Success(Project(ns, r.v, format), Undef, Str(clean), r.ops)
       IN answer(Trim(idv.s), getLastPosition(ns, ks, Trim(idv.s), fail))

(***************************************************************************)
(* Validation middleware (src/src/middleware/validationMiddleware.js) and  *)
(* controllers (src/src/controllers/MobileLastPositionController.js).      *)
(***************************************************************************)
\* the characters of /^[a-zA-Z0-9._-]+$/
ValidChars ==
  {"a","b","c","d","e","f","g","h","i","j","k","l","m","n","o","p","q","r",
   "s","t","u","v","w","x","y","z","A","B","C","D","E","F","G","H","I","J",
   "K","L","M","N","O","P","Q","R","S","T","U","V","W","X","Y","Z","0","1",
   "2","3","4","5","6","7","8","9",".","_","-"}

validPattern(s) == Len(s) >= 1 /\ \A i \in 1..Len(s) : s[i] \in ValidChars

MaxIdLength == 100

\* validateDeviceIdMiddleware / validateUserIdMiddleware: the code of the
\* 400 response, or "next" when the request is passed on
validateIdMiddleware(ns, idv) ==
  IF ~Truthy(idv) THEN MissingIdCode(ns)
  ELSE IF idv.t # "string" \/ Trim(idv.s) = <<>> THEN InvalidIdCode(ns)
  ELSE IF Len(idv.s) > MaxIdLength THEN IdTooLongCode(ns)
  ELSE IF ~validPattern(idv.s) THEN IdCharsCode(ns)
  ELSE "next"

\* an HTTP response; ops counts the storage operations behind it
Response(status, result) ==
  [status |-> status, success |-> result.success, code |-> result.code,
   data |-> result.data, summary |-> result.summary,
   details |-> result.invalidIds, ops |-> result.ops]

\* controllers' getLastPosition (and the per-format variants)
ControllerGetLastPosition(ns, ks, idv, format, fail) ==
  LET reply(result) ==
        IF result.success THEN Response(200, result)
        ELSE Response(IF result.code = "POSITION_NOT_FOUND" THEN 404 ELSE 400, result)
  IN reply(getEntityLastPosition(ns, ks, idv, format, fail))

\* route GET /last/:id : validation middleware, then the controller
RouteGetLastPosition(ns, ks, idv, format, fail) ==
  LET m == validateIdMiddleware(ns, idv)
  IN IF m # "next" THEN Response(400, Fail(m, 0))
     ELSE ControllerGetLastPosition(ns, ks, idv, format, fail)

\* the result object of an existence check
ExistsResult(success, code, exists, n) ==
  [success |-> success, code |-> code, exists |-> exists, ops |-> n]

\* mutation of checkEntityExists: a missing key is answered as an error
checkEntityExistsNotFound(ns, ks, idv, fail) ==
  IF BlankId(idv) THEN ExistsResult(FALSE, InvalidIdCode(ns), Undef, 0)
  ELSE LET answer(r) ==
             IF r.k = "throw" THEN ExistsResult(FALSE, "INTERNAL_ERROR", Undef, r.ops)
             ELSE IF ~r.v THEN ExistsResult(FALSE, "POSITION_NOT_FOUND", Undef, r.ops)
             ELSE ExistsResult(TRUE, "", Bool(r.v), r.ops)
       IN answer(hasLastPosition(ks, Trim(idv.s), fail))

\* GPSLastPositionService.checkDeviceExists(deviceId) and
\* MobileLastPositionService.checkUserExists(userId)
checkEntityExists(ns, ks, idv, fail) ==
  IF BlankId(idv) THEN ExistsResult(FALSE, InvalidIdCode(ns), Undef, 0)
  ELSE LET answer(r) ==
             IF r.k = "throw" THEN ExistsResult(FALSE, "INTERNAL_ERROR", Undef, r.ops)
             ELSE ExistsResult(TRUE, "", Bool(r.v), r.ops)
       IN answer(hasLastPosition(ks, Trim(idv.s), fail))

\* an HTTP response of the existence check
ExistsResponse(status, result) ==
  [status |-> status, success |-> result.success, code |-> result.code,
   exists |-> result.exists, ops |-> result.ops]

\* controllers' checkDeviceExists / checkUserExists
ControllerCheckExists(ns, ks, idv, fail) ==
  LET reply(result) ==
        IF result.success THEN ExistsResponse(200, result)
        ELSE ExistsResponse(400, result)
  IN reply(checkEntityExists(ns, ks, idv, fail))

\* route GET /exists/:id : validation middleware, then the controller
RouteCheckExists(ns, ks, idv, fail) ==
  LET m == validateIdMiddleware(ns, idv)
  IN IF m # "next" THEN ExistsResponse(400, ExistsResult(FALSE, m, Undef, 0))
     ELSE ControllerCheckExists(ns, ks, idv, fail)

(***************************************************************************)
(* Batch lookup.                                                           *)
(***************************************************************************)
Array(items) == [t |-> "array", items |-> items]

maxDevices == 100

\* the entries the service's loop pushes to invalidIds / cleanDeviceIds
InvalidEntries(items) == SelectSeq(items, BlankId)
CleanEntries(items) ==
  LET ok(idv) == ~BlankId(idv)
      kept == SelectSeq(items, ok)
  IN [i \in 1..Len(kept) |-> Trim(kept[i].s)]

\* summary of a batch: requested ids minus the ids the records carry
BatchSummary(ns, clean, positions) ==
  LET foundIds == {IdOf(ns, positions[i]) : i \in 1..Len(positions)}
      missing(id) == Str(id) \notin foundIds
      notFoundIds == SelectSeq(clean, missing)
  IN [requested |-> Len(clean), found |-> Len(positions),
      notFound |-> Len(notFoundIds), notFoundIds |-> notFoundIds]

\* mutation of getMultipleEntitiesLastPositions: the ceiling is off by one
getMultipleEntitiesLastPositionsOffByOne(ns, ks, idsv, format, fail) ==
  IF idsv.t # "array" \/ Len(idsv.items) = 0 THEN Fail(InvalidIdsCode(ns), 0)
  ELSE IF Len(InvalidEntries(idsv.items)) > 0
  THEN [Fail(InvalidIdsCode(ns), 0) EXCEPT !.invalidIds = InvalidEntries(idsv.items)]
  ELSE LET answer(clean, r) ==
             IF r.k = "throw" THEN Fail("INTERNAL_ERROR", r.ops)
             ELSE Success([i \in 1..Len(r.v) |-> Project(ns, r.v[i], format)],
                          BatchSummary(ns, clean, r.v), Undef, r.ops)
           query(clean) ==
             IF Len(clean) > maxDevices + 1 THEN Fail(TooManyCode(ns), 0)
             ELSE answer(clean, getMultipleLastPositions(ns, ks, clean, fail))
       IN query(CleanEntries(idsv.items))

\* GPSLastPositionService.getMultipleDevicesLastPositions(deviceIds, format)
\* and MobileLastPositionService.getMultipleUsersLastPositions(userIds)
getMultipleEntitiesLastPositions(ns, ks, idsv, format, fail) ==
  IF idsv.t # "array" \/ Len(idsv.items) = 0 THEN Fail(InvalidIdsCode(ns), 0)
  ELSE IF Len(InvalidEntries(idsv.items)) > 0
  THEN [Fail(InvalidIdsCode(ns), 0) EXCEPT !.invalidIds = InvalidEntries(idsv.items)]
  ELSE LET answer(clean, r) ==
             IF r.k = "throw" THEN Fail("INTERNAL_ERROR", r.ops)
             ELSE Success([i \in 1..Len(r.v) |-> Project(ns, r.v[i], format)],
                          BatchSummary(ns, clean, r.v), Undef, r.ops)
           query(clean) ==
             IF Len(clean) > maxDevices THEN Fail(TooManyCode(ns), 0)
             ELSE answer(clean, getMultipleLastPositions(ns, ks, clean, fail))
       IN query(CleanEntries(idsv.items))

\* the entries validateMultipleDevicesMiddleware pushes to invalidDevices
MiddlewareInvalidEntry(idv) ==
  \/ BlankId(idv)
  \/ Len(idv.s) > MaxIdLength
  \/ ~validPattern(idv.s)

MaxBatchSize == 100

\* next(): the request is passed on to the controller
MiddlewareNext == [next |-> TRUE]

\* validateMultipleDevicesMiddleware / validateMultipleUsersMiddleware: the
\* 400 response, or "next"
validateMultipleMiddleware(ns, idsv) ==
  IF ~Truthy(idsv) THEN Fail(MissingIdsCode(ns), 0)
  ELSE IF idsv.t # "array" THEN Fail(IdsTypeCode(ns), 0)
  ELSE IF Len(idsv.items) = 0 THEN Fail(EmptyIdsCode(ns), 0)
  ELSE IF Len(idsv.items) > MaxBatchSize THEN Fail(TooManyIdsCode(ns), 0)
  ELSE IF Len(SelectSeq(idsv.items, MiddlewareInvalidEntry)) > 0
  THEN [Fail(InvalidIdsCode(ns), 0)
          EXCEPT !.invalidIds = SelectSeq(idsv.items, MiddlewareInvalidEntry)]
  ELSE MiddlewareNext

\* controllers' getMultipleLastPositions (and the per-format variants)
ControllerGetMultiple(ns, ks, idsv, format, fail) ==
  LET reply(result) ==
        IF result.success THEN Response(200, result) ELSE Response(400, result)
  IN reply(getMultipleEntitiesLastPositions(ns, ks, idsv, format, fail))

\* route POST /last/multiple : validation middleware, then the controller
RouteGetMultiple(ns, ks, idsv, format, fail) ==
  LET m == validateMultipleMiddleware(ns, idsv)
  IN IF m # MiddlewareNext THEN Response(400, m)
     ELSE ControllerGetMultiple(ns, ks, idsv, format, fail)

(***************************************************************************)
(* Full listing.                                                           *)
(***************************************************************************)
Min(a, b) == IF a < b THEN a ELSE b
Max(a, b) == IF a > b THEN a ELSE b

\* Array.prototype.slice(start, end) for start, end >= 0
Slice(s, start, end) == SubSeq(s, start + 1, Min(end, Len(s)))

\* mutation of Paginate: the window starts one element late
PaginateLate(formatted, limit, offset) ==
  IF Truthy(limit) /\ limit.n > 0
  THEN LET start == Max(0, offset.n) + 1
       IN Slice(formatted, start, start + limit.n)
  ELSE formatted

\* the pagination block of getAllLastPositions
Paginate(formatted, limit, offset) ==
  IF Truthy(limit) /\ limit.n > 0
  THEN LET start == Max(0, offset.n)
       IN Slice(formatted, start, start + limit.n)
  ELSE formatted

\* GPSLastPositionService.getAllLastPositions({limit, offset}) and its
\* mobile twin; keys is the reply of the prefix scan
getAllEntitiesLastPositions(ns, ks, keys, limit, offset, fail) ==
  LET page(formatted, positions, n) ==
        Success(positions,
                [total |-> Len(formatted), returned |-> Len(positions),
                 offset |-> offset, limit |-> limit],
                Undef, n)
      listing(formatted, n) == page(formatted, Paginate(formatted, limit, offset), n)
      answer(r) ==
        IF r.k = "throw" THEN Fail("INTERNAL_ERROR", r.ops)
        ELSE listing([i \in 1..Len(r.v) |-> ProjectListing(ns, r.v[i])], r.ops)
  IN answer(getAllLastPositions(ns, ks, keys, fail))

\* parseInt of a query-string value
parseInt(txt) == IF txt.k = "num" THEN Num(txt.n) ELSE [t |-> "NaN"]

MaxLimit == 1000

\* validatePaginationMiddleware: the code of the 400 response, or "next"
validatePaginationMiddleware(limitq, offsetq) ==
  IF limitq # Undef /\ LET l == parseInt(limitq)
                       IN l.t = "NaN" \/ l.n <= 0 \/ l.n > MaxLimit
  THEN "INVALID_LIMIT"
  ELSE IF offsetq # Undef /\ LET o == parseInt(offsetq)
                             IN o.t = "NaN" \/ o.n < 0
  THEN "INVALID_OFFSET"
  ELSE "next"

\* controllers' getAllLastPositions: limitq, offsetq are req.query values
ControllerGetAll(ns, ks, keys, limitq, offsetq, fail) ==
  LET limit == IF limitq # Undef /\ TextTruthy(limitq) THEN parseInt(limitq) ELSE Null
      offset == IF offsetq # Undef /\ TextTruthy(offsetq) THEN parseInt(offsetq) ELSE Num(0)
      reply(result) ==
        IF result.success THEN Response(200, result) ELSE Response(500, result)
  IN IF limit # Null /\ (limit.t = "NaN" \/ limit.n <= 0 \/ limit.n > MaxLimit)
     THEN Response(400, Fail("INVALID_LIMIT", 0))
     ELSE IF offset.t = "NaN" \/ offset.n < 0
     THEN Response(400, Fail("INVALID_OFFSET", 0))
     ELSE reply(getAllEntitiesLastPositions(ns, ks, keys, limit, offset, fail))

\* route GET /last : validation middleware, then the controller
RouteGetAll(ns, ks, keys, limitq, offsetq, fail) ==
  LET m == validatePaginationMiddleware(limitq, offsetq)
  IN IF m # "next" THEN Response(400, Fail(m, 0))
     ELSE ControllerGetAll(ns, ks, keys, limitq, offsetq, fail)

(***************************************************************************)
(* The environment: what producers store and what callers send.            *)
(***************************************************************************)
\* a JSON payload of a producer
Payload(ns, idv, lat, name) ==
  WithId(ns, [EmptyObj EXCEPT !.lat = Num(lat), !.lng = Num(2), !.name = name], idv)

Label == <<"N">>

\* every encoding with a matching, an omitted and a foreign identifier, and
\* each of them with content that is not JSON where the decoder parses it
FullValues(ns, id) ==
  { RString(Json(Payload(ns, Str(id), 1, Str(Label)))),
    RString(Json(Payload(ns, Undef, 1, Undef))),
    RString(Json(Payload(ns, Str(OtherId(id)), 1, Undef))),
    RString(Malformed),
    RString(EmptyText),
    RHash([lat |-> NumText(1), lng |-> NumText(2)]),
    RHash([deviceId |-> Raw(OtherId(id)), lat |-> NumText(1), name |-> Raw(Label)]),
    RHash([lat |-> NumText(1), metadata |-> Malformed]),
    RList(<<Json(Payload(ns, Str(id), 9, Undef)), Json(Payload(ns, Undef, 1, Undef))>>),
    RZset({[score |-> 1, member |-> Json(Payload(ns, Str(id), 1, Undef))],
           [score |-> 2, member |-> Json(Payload(ns, Str(OtherId(id)), 9, Undef))]}),
    RList(<<Json(Payload(ns, Str(id), 1, Undef)), Malformed>>),
    RZset({[score |-> 1, member |-> Json(Payload(ns, Str(id), 1, Undef))],
           [score |-> 2, member |-> Malformed]}),
    RSet }

BasicValues(ns, id) ==
  { RString(Json(Payload(ns, Str(id), 1, Str(Label)))),
    RString(Json(Payload(ns, Str(OtherId(id)), 1, Undef))) }

\* the first device of the tracker fleet is stored in every encoding, the
\* other keys as JSON strings
ProducerValues(ns, id) ==
  IF ns = "gps" /\ id = Id1 THEN FullValues(ns, id)
  ELSE IF id = Id1 THEN BasicValues(ns, id) \cup
         {RString(Json(Payload(ns, Undef, 1, Undef))),
          RHash([lat |-> NumText(1), lng |-> NumText(2)])}
  ELSE {RString(Json(Payload(ns, Str(id), 1, Str(Label))))}

\* the keys present in the database
LiveKeys(st) == {k \in Namespaces \X KeyIds : st[k[1]][k[2]] # Absent}

\* identifiers callers send
LongId == Str([i \in 1..(MaxIdLength + 1) |-> "a"])
IdInputs ==
  { Str(Id1), Str(Id2), Str(<<" ", "a">>), Str(<<"a", "/">>), Str(<<" ">>),
    LongId, Null, Num(7) }

Formats == {"full", "gps", "mobile"}
BatchFormats == {"full", "gps"}

NoFail == [id \in KeyIds |-> 0]
FailPlans == {NoFail, [NoFail EXCEPT ![Id1] = 2]}

\* the inputs of existence checks: a failure of EXISTS, of TYPE or of the
\* content probe on the first key
ExistsFailPlans == {NoFail} \cup {[NoFail EXCEPT ![Id1] = c] : c \in 1..3}
ExistsIds ==
  { Str(Id1), Str(Id2), Str(<<" ", "a">>), Str(<<"a", "/">>), Null }

Vias == {"http", "service"}

\* batches: every short batch over a few entries, some batches with a blank
\* entry, and long uniform batches at and over the ceiling, possibly with a
\* blank entry in front
BatchEntries == {Str(Id1), Str(Id2), Str(<<"a", "/">>)}
BlankBatches ==
  { <<Str(<<" ">>)>>, <<Str(Id1), Str(<<" ">>)>>, <<Str(<<" ">>), Str(<<"a", "/">>)>> }
ShortBatches ==
  UNION {[1..n -> BatchEntries] : n \in 0..MaxBatch} \cup BlankBatches
LongBatches ==
  UNION { { [i \in 1..n |-> Str(Id1)],
            [i \in 1..n |-> IF i = 1 THEN Str(<<" ">>) ELSE Str(Id1)] }
          : n \in maxDevices..(maxDevices + OverCeiling) }
BatchInputs == {Array(b) : b \in ShortBatches} \cup {Undef, Str(Id1)}
LongBatchInputs == {Array(b) : b \in LongBatches}

\* the orders a prefix scan can reply the live keys of a namespace in
ScanOrders(ks) ==
  LET live == {id \in DOMAIN ks : ks[id] # Absent}
  IN {o \in [1..Cardinality(live) -> live] :
        \A i, j \in 1..Cardinality(live) : i # j => o[i] # o[j]}

LimitQueries == {Undef, NumText(0), NumText(1), NumText(2), NumText(MaxLimit + 1)}
OffsetQueries == {Undef} \cup {NumText(o) : o \in (-1)..MaxOffset}
LimitOptions == {Null, Num(1), Num(2)}
OffsetOptions == {Num(o) : o \in 0..MaxOffset}

(***************************************************************************)
(* State machine.  store is the Redis database, last the latest request    *)
(* with its answer, proc the process with the connection flag of each of   *)
(* its repositories.  The connections are followed in the process          *)
(* lifecycle below, where a request is reduced to its connect().           *)
(***************************************************************************)
\* no request is being answered
Idle == [op |-> "none"]

\* the repository instances of the process: each router module and the
\* application create their own controller, service and repository
Holders == {"routes", "app"}
Repositories == Namespaces \X Holders

\* the process after startServer(): listening, no repository connected yet
Booted ==
  [phase |-> "running", signal |-> "none", code |-> 0,
   isConnected |-> [r \in Repositories |-> FALSE]]

Init ==
  /\ store = [ns \in Namespaces |-> [id \in KeyIds |-> Absent]]
  /\ last = Idle
  /\ proc = Booted

\* an external producer sets or replaces a key
ProducerWrite ==
  /\ last = Idle
  /\ \E ns \in Namespaces, id \in KeyIds :
       \E v \in ProducerValues(ns, id) :
         /\ store[ns][id] # Absent \/ Cardinality(LiveKeys(store)) < MaxKeys
         /\ store[ns][id] # v
         /\ store' = [store EXCEPT ![ns][id] = v]
         /\ UNCHANGED <<last, proc>>

\* an external producer deletes a key
ProducerDelete ==
  /\ last = Idle
  /\ \E ns \in Namespaces, id \in KeyIds :
       /\ store[ns][id] # Absent
       /\ store' = [store EXCEPT ![ns][id] = Absent]
       /\ UNCHANGED <<last, proc>>

\* a single lookup, through the route or directly on the service
GetLastPosition ==
  /\ last = Idle
  /\ \E ns \in Namespaces, via \in Vias, idv \in IdInputs, fail \in FailPlans :
       \E format \in (IF ns = "gps" THEN Formats ELSE {"full"}) :
         /\ last' = [op |-> "get", ns |-> ns, via |-> via, id |-> idv,
                     format |-> format, fail |-> fail,
                     resp |-> IF via = "http"
                              THEN RouteGetLastPosition(ns, store[ns], idv, format, fail)
                              ELSE Response(0, getEntityLastPosition(ns, store[ns], idv, format, fail))]
         /\ UNCHANGED <<store, proc>>

\* an existence check, through the route or directly on the service
CheckExists ==
  /\ last = Idle
  /\ \E ns \in Namespaces, via \in Vias, idv \in ExistsIds, fail \in ExistsFailPlans :
       /\ last' = [op |-> "exists", ns |-> ns, via |-> via, id |-> idv, fail |-> fail,
                   resp |-> IF via = "http"
                            THEN RouteCheckExists(ns, store[ns], idv, fail)
                            ELSE ExistsResponse(0, checkEntityExists(ns, store[ns], idv, fail))]
       /\ UNCHANGED <<store, proc>>

\* a batch lookup, through the route or directly on the service
GetMultiple ==
  /\ last = Idle
  /\ \E ns \in Namespaces, via \in Vias, idsv \in BatchInputs, fail \in FailPlans :
       \E format \in (IF ns = "gps" THEN BatchFormats ELSE {"full"}) :
         /\ last' = [op |-> "multiple", ns |-> ns, via |-> via, ids |-> idsv,
                     format |-> format, fail |-> fail,
                     resp |-> IF via = "http"
                              THEN RouteGetMultiple(ns, store[ns], idsv, format, fail)
                              ELSE Response(0, getMultipleEntitiesLastPositions(ns, store[ns], idsv, format, fail))]
         /\ UNCHANGED <<store, proc>>

\* a batch lookup around the ceiling
GetMultipleLong ==
  /\ last = Idle
  /\ \E ns \in Namespaces, via \in Vias, idsv \in LongBatchInputs :
       /\ last' = [op |-> "multiple", ns |-> ns, via |-> via, ids |-> idsv,
                   format |-> "full", fail |-> NoFail,
                   resp |-> IF via = "http"
                            THEN RouteGetMultiple(ns, store[ns], idsv, "full", NoFail)
                            ELSE Response(0, getMultipleEntitiesLastPositions(ns, store[ns], idsv, "full", NoFail))]
       /\ UNCHANGED <<store, proc>>

\* a full listing through the route
GetAllHttp ==
  /\ last = Idle
  /\ \E ns \in Namespaces, limitq \in LimitQueries, offsetq \in OffsetQueries,
        fail \in FailPlans :
       \E keys \in ScanOrders(store[ns]) :
         /\ last' = [op |-> "all", ns |-> ns, via |-> "http", limit |-> limitq,
                     offset |-> offsetq, keys |-> keys, fail |-> fail,
                     resp |-> RouteGetAll(ns, store[ns], keys, limitq, offsetq, fail)]
         /\ UNCHANGED <<store, proc>>

\* a full listing directly on the service
GetAllService ==
  /\ last = Idle
  /\ \E ns \in Namespaces, limit \in LimitOptions, offset \in OffsetOptions,
        fail \in FailPlans :
       \E keys \in ScanOrders(store[ns]) :
         /\ last' = [op |-> "all", ns |-> ns, via |-> "service", limit |-> limit,
                     offset |-> offset, keys |-> keys, fail |-> fail,
                     resp |-> Response(0, getAllEntitiesLastPositions(ns, store[ns], keys, limit, offset, fail))]
         /\ UNCHANGED <<store, proc>>

\* the caller takes the answer; the engine keeps nothing of the request
Deliver ==
  /\ last # Idle
  /\ last' = Idle
  /\ UNCHANGED <<store, proc>>

Next ==
  \/ Deliver
  \/ ProducerWrite
  \/ ProducerDelete
  \/ GetLastPosition
  \/ CheckExists
  \/ GetMultiple
  \/ GetMultipleLong
  \/ GetAllHttp
  \/ GetAllService

Spec == Init /\ [][Next]_vars

(***************************************************************************)
(* The list encoding under its documented producer.  The README gives      *)
(* LPUSH as the command that stores a position in a list; LPUSH inserts    *)
(* the element at the head of the list, creating the list when the key     *)
(* does not exist.                                                         *)
(***************************************************************************)
\* the longest list a producer builds
MaxList == 2

\* the positions a producer pushes for a key
PushElements(ns, id) ==
  { Json(Payload(ns, Str(id), 1, Undef)), Json(Payload(ns, Str(id), 9, Undef)) }

\* LPUSH key element
LPush(v, e) == IF v = Absent THEN RList(<<e>>) ELSE RList(<<e>> \o v.elems)

\* a producer pushes a position of the first entity of a namespace
ProducerPush ==
  /\ last = Idle
  /\ \E ns \in Namespaces :
       \E e \in PushElements(ns, Id1) :
         /\ IF store[ns][Id1] = Absent THEN TRUE
            ELSE Len(store[ns][Id1].elems) < MaxList
         /\ store' = [store EXCEPT ![ns][Id1] = LPush(store[ns][Id1], e)]
         /\ UNCHANGED <<last, proc>>

ListNext ==
  \/ Deliver
  \/ ProducerPush
  \/ ProducerDelete
  \/ GetLastPosition

ListSpec == Init /\ [][ListNext]_vars

(***************************************************************************)
(* The projections applied to position records.                            *)
(***************************************************************************)
\* position records as the repositories return them: an identifier, the
\* coordinates (possibly null or zero) and a name that is omitted, null,
\* empty or a label
Coordinates == {Num(1), Num(0), Null}
Names == {Undef, Null, Str(<<>>), Str(Label)}
Positions(ns) ==
  { WithId(ns, [EmptyObj EXCEPT !.lat = lat, !.lng = lng, !.name = name,
                                !.retrievedAt = Str(<<"t">>)], Str(id)) :
      id \in KeyIds, lat \in Coordinates, lng \in {Num(2), Null}, name \in Names }

\* the format names callers pass, one of them unknown to the service
Views == {"full", "gps", "mobile", "compact"}

\* a call of a projection: the value it returns and the argument as the
\* call leaves it (the functions build a new object or return the
\* argument, and assign to no property of it)
Projection(position, out) ==
  [k |-> "return", v |-> out, position |-> position]

\* the device service formats a position in a view
FormatPosition ==
  /\ last = Idle
  /\ \E position \in Positions("gps"), view \in Views :
       /\ last' = [op |-> "project", ns |-> "gps", position |-> position,
                   view |-> view,
                   call |-> Projection(position, formatPositionData(position, view))]
       /\ UNCHANGED <<store, proc>>

\* the mobile service formats a position of a listing
FormatPositionForMobile ==
  /\ last = Idle
  /\ \E position \in Positions("mobile") :
       /\ last' = [op |-> "project", ns |-> "mobile", position |-> position,
                   view |-> "mobile",
                   call |-> Projection(position, formatPositionDataForMobile(position))]
       /\ UNCHANGED <<store, proc>>

ProjectNext ==
  \/ Deliver
  \/ FormatPosition
  \/ FormatPositionForMobile

ProjectSpec == Init /\ [][ProjectNext]_vars

(***************************************************************************)
(* Statistics and health.  The replies of Redis are inputs: the reply to   *)
(* PING, the outcome of connect and KEYS, and per key the reply to         *)
(* MEMORY USAGE.                                                           *)
(***************************************************************************)
\* connect then PING: answered PONG, answered something else, the command
\* raised, or connect raised
ProbeReplies == {"PONG", "LOADING", "raise", "unreachable"}

\* connect then KEYS prefix*: answered, KEYS raised, or connect raised
ScanReplies == {"ok", "raise", "unreachable"}

\* MEMORY USAGE key: raised, answered null, or answered a number of bytes
Usage(id) == IF id = Id1 THEN 3 ELSE 5
MemoryRaises == [k |-> "throw", e |-> "io"]
MemoryReplies(id) ==
  { MemoryRaises, [k |-> "return", v |-> Null], [k |-> "return", v |-> Num(Usage(id))] }

\* repository ping()
ping(probe) == probe = "PONG"

\* the loop of getStats over the scanned keys, from the i-th key on
RECURSIVE MemoryLoop(_, _, _, _)
MemoryLoop(keys, mem, i, totalMemoryUsage) ==
  IF i > Len(keys) THEN totalMemoryUsage
  ELSE MemoryLoop(keys, mem, i + 1,
         IF mem[keys[i]].k = "throw" THEN totalMemoryUsage
         ELSE totalMemoryUsage + Or(mem[keys[i]].v, Num(0)).n)

\* the record getStats returns (totalUsers in the mobile repository)
StatsRecord(ns, n, usage) ==
  IF ns = "gps" THEN [totalDevices |-> n, memoryUsage |-> usage]
  ELSE [totalUsers |-> n, memoryUsage |-> usage]
Total(ns, stats) == IF ns = "gps" THEN stats.totalDevices ELSE stats.totalUsers

\* mutation of getStats: a failure of MEMORY USAGE fails the call
getStatsStrict(ns, keys, scan, mem) ==
  IF scan # "ok" THEN [k |-> "throw", e |-> scan]
  ELSE IF \E i \in 1..Len(keys) : mem[keys[i]].k = "throw"
  THEN [k |-> "throw", e |-> "io"]
  ELSE [k |-> "return",
        v |-> StatsRecord(ns, Len(keys), MemoryLoop(keys, mem, 1, 0))]

\* repository getStats()
getStats(ns, keys, scan, mem) ==
  IF scan # "ok" THEN [k |-> "throw", e |-> scan]
  ELSE [k |-> "return",
        v |-> StatsRecord(ns, Len(keys), MemoryLoop(keys, mem, 1, 0))]

\* service getServiceStats(): the statistics, then a ping
getServiceStats(ns, keys, scan, mem, probe) ==
  LET answer(stats, healthCheck) ==
        IF stats.k = "throw"
        THEN [success |-> FALSE, code |-> "INTERNAL_ERROR", stats |-> Undef,
              redisConnection |-> Undef]
        ELSE [success |-> TRUE, code |-> "", stats |-> stats.v,
              redisConnection |-> IF healthCheck THEN "healthy" ELSE "unhealthy"]
  IN answer(getStats(ns, keys, scan, mem), ping(probe))

\* controllers' getStats
ControllerGetStats(ns, keys, scan, mem, probe) ==
  LET reply(result) == [status |-> IF result.success THEN 200 ELSE 500] @@ result
  IN reply(getServiceStats(ns, keys, scan, mem, probe))

\* the answer of the service's healthCheck
HealthResult(healthy, redis, total) ==
  [healthy |-> healthy, redis |-> redis, total |-> total]

\* mutation of healthCheck: healthy whenever the statistics were obtained
healthCheckOptimistic(ns, keys, probe, scan, mem) ==
  LET answer(redisHealth, stats) ==
        IF stats.k = "throw" THEN HealthResult(FALSE, Undef, Undef)
        ELSE HealthResult(TRUE,
                          Str(IF redisHealth THEN "healthy" ELSE "unhealthy"),
                          Or(Num(Total(ns, stats.v)), Num(0)))
  IN answer(ping(probe), getStats(ns, keys, scan, mem))

\* service healthCheck(): a ping, then the statistics
healthCheck(ns, keys, probe, scan, mem) ==
  LET answer(redisHealth, stats) ==
        IF stats.k = "throw" THEN HealthResult(FALSE, Undef, Undef)
        ELSE HealthResult(redisHealth,
                          Str(IF redisHealth THEN "healthy" ELSE "unhealthy"),
                          Or(Num(Total(ns, stats.v)), Num(0)))
  IN answer(ping(probe), getStats(ns, keys, scan, mem))

\* controllers' healthCheck
ControllerHealthCheck(ns, keys, probe, scan, mem) ==
  LET reply(result) == [status |-> IF result.healthy THEN 200 ELSE 503] @@ result
  IN reply(healthCheck(ns, keys, probe, scan, mem))

\* the replies to MEMORY USAGE for the keys of a keyspace
MemPlans(ks) ==
  { mem \in [KeyIds -> UNION {MemoryReplies(id) : id \in KeyIds}] :
      \A id \in KeyIds :
        IF ks[id] = Absent THEN mem[id] = MemoryRaises
        ELSE mem[id] \in MemoryReplies(id) }

\* the plans in which every key gets the same kind of reply
UniformMemPlans(ks) ==
  { mem \in MemPlans(ks) :
      \A a, b \in KeyIds :
        (ks[a] # Absent /\ ks[b] # Absent) =>
          (mem[a].k = mem[b].k /\ (mem[a].k = "return" => mem[a].v.t = mem[b].v.t)) }

\* GET /stats, or getServiceStats() directly
GetStats ==
  /\ last = Idle
  /\ \E ns \in Namespaces, via \in Vias, scan \in ScanReplies,
        probe \in {"PONG", "raise"} :
      \E keys \in ScanOrders(store[ns]), mem \in MemPlans(store[ns]) :
        /\ last' = [op |-> "stats", ns |-> ns, via |-> via, keys |-> keys,
                    scan |-> scan, mem |-> mem, probe |-> probe,
                    resp |-> IF via = "http"
                             THEN ControllerGetStats(ns, keys, scan, mem, probe)
                             ELSE [status |-> 0] @@ getServiceStats(ns, keys, scan, mem, probe)]
        /\ UNCHANGED <<store, proc>>

\* GET /api/v4/health/gps, /api/v4/health/mobile, or healthCheck() directly
HealthCheck ==
  /\ last = Idle
  /\ \E ns \in Namespaces, via \in Vias, probe \in ProbeReplies,
        scan \in ScanReplies :
      \E keys \in ScanOrders(store[ns]), mem \in UniformMemPlans(store[ns]) :
        /\ last' = [op |-> "health", ns |-> ns, via |-> via, keys |-> keys,
                    scan |-> scan, mem |-> mem, probe |-> probe,
                    resp |-> IF via = "http"
                             THEN ControllerHealthCheck(ns, keys, probe, scan, mem)
                             ELSE [status |-> 0] @@ healthCheck(ns, keys, probe, scan, mem)]
        /\ UNCHANGED <<store, proc>>

AdminNext ==
  \/ Deliver
  \/ ProducerWrite
  \/ ProducerDelete
  \/ GetStats
  \/ HealthCheck

AdminSpec == Init /\ [][AdminNext]_vars

(***************************************************************************)
(* Process lifecycle (src/unnamed/part_004): requests connect the          *)
(* repositories, SIGTERM and SIGINT start gracefulShutdown, which closes   *)
(* the HTTP server and exits, at the latest when its timer fires.          *)
(***************************************************************************)
Signals == {"SIGTERM", "SIGINT"}

\* repository connect(): the outcomes of client.connect()
ConnectReplies == {"ok", "already connected", "raise"}
connect(isConnected, r, reply) ==
  IF isConnected[r] THEN isConnected
  ELSE IF reply = "raise" THEN isConnected
  ELSE [isConnected EXCEPT ![r] = TRUE]

\* repository disconnect(), which the services' cleanup() calls
disconnect(isConnected, r) == [isConnected EXCEPT ![r] = FALSE]

\* a request reaches a repository, whose operation starts with connect();
\* requests in flight go on while the server closes
Connect ==
  \E r \in Repositories, reply \in ConnectReplies :
    /\ proc.phase \in {"running", "closing"}
    /\ proc' = [proc EXCEPT !.isConnected = connect(proc.isConnected, r, reply)]
    /\ UNCHANGED <<store, last>>

\* process.on(signal, () => gracefulShutdown(signal)): server.close(...) is
\* called and the 10 s timer is set
gracefulShutdown ==
  \E signal \in Signals :
    /\ proc.phase = "running"
    /\ proc' = [proc EXCEPT !.phase = "closing", !.signal = signal]
    /\ UNCHANGED <<store, last>>

\* the callback of server.close: an empty try block, then process.exit(0)
ServerClosed ==
  /\ proc.phase = "closing"
  /\ proc' = [proc EXCEPT !.phase = "exited", !.code = 0]
  /\ UNCHANGED <<store, last>>

\* the timer of gracefulShutdown: process.exit(1)
ForcedExit ==
  /\ proc.phase = "closing"
  /\ proc' = [proc EXCEPT !.phase = "exited", !.code = 1]
  /\ UNCHANGED <<store, last>>

LifecycleNext ==
  \/ Connect
  \/ gracefulShutdown
  \/ ServerClosed
  \/ ForcedExit

LifecycleSpec == Init /\ [][LifecycleNext]_vars

(***************************************************************************)
(* Redis unreachable.  While the server cannot be reached the client is    *)
(* in one of its not-ready states and every command raises; connect()      *)
(* itself raises only when it calls client.connect().                      *)
(***************************************************************************)
\* the states of the client while the server is unreachable; a repository
\* that connected before is no longer in the initial state
DownStatuses(isConnected) ==
  IF isConnected THEN {"connecting", "reconnecting", "end"}
  ELSE {"wait", "connecting", "reconnecting", "end"}

\* repository connect() while the server is unreachable: it raises exactly
\* when it reaches client.connect()
connectRaises(isConnected, status) ==
  /\ status # "ready"
  /\ ~isConnected
  /\ status # "connecting"

\* the commands of a request that runs while the server is unreachable
OutagePlan(isConnected, status) ==
  [step \in KeyIds \cup {Connecting, Scanning} |->
     IF step = Connecting
     THEN (IF connectRaises(isConnected, status) THEN 1 ELSE 0)
     ELSE 1]

\* the repository the routes of a namespace use
RouteRepository(ns) == <<ns, "routes">>

\* an earlier request found Redis reachable and connected the repository
Established ==
  /\ last = Idle
  /\ \E ns \in Namespaces :
       /\ ~proc.isConnected[RouteRepository(ns)]
       /\ proc' = [proc EXCEPT !.isConnected =
                     connect(proc.isConnected, RouteRepository(ns), "ok")]
       /\ UNCHANGED <<store, last>>

\* a batch lookup while Redis is unreachable
GetMultipleDown ==
  /\ last = Idle
  /\ \E ns \in Namespaces, via \in Vias, idsv \in BatchInputs :
       \E status \in DownStatuses(proc.isConnected[RouteRepository(ns)]) :
         /\ last' =
              LET fail == OutagePlan(proc.isConnected[RouteRepository(ns)], status)
              IN [op |-> "multiple", ns |-> ns, via |-> via, ids |-> idsv,
                  format |-> "full", fail |-> fail, status |-> status,
                  resp |-> IF via = "http"
                           THEN RouteGetMultiple(ns, store[ns], idsv, "full", fail)
                           ELSE Response(0, getMultipleEntitiesLastPositions(ns, store[ns], idsv, "full", fail))]
         /\ UNCHANGED <<store, proc>>

\* a full listing while Redis is unreachable
GetAllDown ==
  /\ last = Idle
  /\ \E ns \in Namespaces, via \in Vias :
       \E status \in DownStatuses(proc.isConnected[RouteRepository(ns)]),
          keys \in ScanOrders(store[ns]) :
         /\ last' =
              LET fail == OutagePlan(proc.isConnected[RouteRepository(ns)], status)
              IN [op |-> "all", ns |-> ns, via |-> via, keys |-> keys,
                  limit |-> IF via = "http" THEN Undef ELSE Null,
                  offset |-> IF via = "http" THEN Undef ELSE Num(0),
                  fail |-> fail, status |-> status,
                  resp |-> IF via = "http"
                           THEN RouteGetAll(ns, store[ns], keys, Undef, Undef, fail)
                           ELSE Response(0, getAllEntitiesLastPositions(ns, store[ns], keys, Null, Num(0), fail))]
         /\ UNCHANGED <<store, proc>>

OutageNext ==
  \/ Deliver
  \/ ProducerWrite
  \/ ProducerDelete
  \/ Established
  \/ GetMultipleDown
  \/ GetAllDown

OutageSpec == Init /\ [][OutageNext]_vars

(***************************************************************************)
(* The Redis commands the repositories issue, and what they do to the      *)
(* database.  An operation is followed here by the commands it sends       *)
(* (connect() sends none), applied to store one after the other.           *)
(***************************************************************************)
Cmd(name, ns, id) == [cmd |-> name, ns |-> ns, id |-> id]

\* the commands used by the repositories
ReadCommands ==
  {"EXISTS", "TYPE", "GET", "HGETALL", "HKEYS", "LINDEX", "LLEN", "ZREVRANGE",
   "ZCARD", "KEYS", "MEMORY USAGE", "PING", "QUIT"}

\* a command of Redis on the database: the commands above read; RPOP and
\* DEL are the writers a lookup could have used instead
RedisApply(db, c) ==
  CASE c.cmd \in ReadCommands -> db
    [] c.cmd = "DEL" -> [db EXCEPT ![c.ns][c.id] = Absent]
    [] c.cmd = "RPOP" ->
         IF db[c.ns][c.id].type # "list" THEN db
         ELSE IF Len(db[c.ns][c.id].elems) <= 1
         THEN [db EXCEPT ![c.ns][c.id] = Absent]
         ELSE [db EXCEPT ![c.ns][c.id] =
                 RList(SubSeq(db[c.ns][c.id].elems, 1, Len(db[c.ns][c.id].elems) - 1))]

RECURSIVE RedisApplyAll(_, _)
RedisApplyAll(db, cmds) ==
  IF cmds = <<>> THEN db
  ELSE RedisApplyAll(RedisApply(db, Head(cmds)), Tail(cmds))

\* mutation of getDataByTypeCommands: the list is read by popping its tail
getDataByTypeCommandsPop(ns, v, id) ==
  <<Cmd("TYPE", ns, id)>> \o
    CASE v.type = "string" -> <<Cmd("GET", ns, id)>>
      [] v.type = "hash" -> <<Cmd("HGETALL", ns, id)>>
      [] v.type = "list" -> <<Cmd("RPOP", ns, id)>>
      [] v.type = "zset" -> <<Cmd("ZREVRANGE", ns, id)>>
      [] OTHER -> <<>>

\* the commands of getDataByType on a key holding v
getDataByTypeCommands(ns, v, id) ==
  <<Cmd("TYPE", ns, id)>> \o
    CASE v.type = "string" -> <<Cmd("GET", ns, id)>>
      [] v.type = "hash" -> <<Cmd("HGETALL", ns, id)>>
      [] v.type = "list" -> <<Cmd("LINDEX", ns, id)>>
      [] v.type = "zset" -> <<Cmd("ZREVRANGE", ns, id)>>
      [] OTHER -> <<>>

\* the commands of getLastPosition(id)
getLastPositionCommands(ns, db, id) ==
  <<Cmd("EXISTS", ns, id)>> \o
    (IF db[ns][id] = Absent THEN <<>>
     ELSE getDataByTypeCommands(ns, db[ns][id], id))

\* the commands of hasLastPosition(id)
hasLastPositionCommands(ns, db, id) ==
  <<Cmd("EXISTS", ns, id)>> \o
    (IF db[ns][id] = Absent THEN <<>>
     ELSE <<Cmd("TYPE", ns, id)>> \o
            CASE db[ns][id].type = "hash" -> <<Cmd("HKEYS", ns, id)>>
              [] db[ns][id].type = "string" -> <<Cmd("GET", ns, id)>>
              [] db[ns][id].type = "list" -> <<Cmd("LLEN", ns, id)>>
              [] db[ns][id].type = "zset" -> <<Cmd("ZCARD", ns, id)>>
              [] OTHER -> <<>>)

\* the commands of the loop over ids, each lookup seeing what the commands
\* before it left in the database
RECURSIVE LoopCommands(_, _, _)
LoopCommands(ns, db, ids) ==
  IF ids = <<>> THEN <<>>
  ELSE LET first(cmds) == cmds \o LoopCommands(ns, RedisApplyAll(db, cmds), Tail(ids))
       IN first(getLastPositionCommands(ns, db, Head(ids)))

\* the commands of getStats(): the scan and MEMORY USAGE per key
StatsCommands(ns, keys) ==
  <<Cmd("KEYS", ns, <<>>)>> \o [i \in 1..Len(keys) |-> Cmd("MEMORY USAGE", ns, keys[i])]

\* the operations of a repository and the commands each sends
Operations ==
  {"get", "exists", "getMany", "getAll", "stats", "ping", "connect", "disconnect"}

IdBatches == UNION {[1..n -> KeyIds] : n \in 1..MaxBatch}

CommandsOf(op, ns, db, ids, keys) ==
  CASE op = "get" -> getLastPositionCommands(ns, db, ids[1])
    [] op = "exists" -> hasLastPositionCommands(ns, db, ids[1])
    [] op = "getMany" -> LoopCommands(ns, db, ids)
    [] op = "getAll" -> <<Cmd("KEYS", ns, <<>>)>> \o LoopCommands(ns, db, keys)
    [] op = "stats" -> StatsCommands(ns, keys)
    [] op = "ping" -> <<Cmd("PING", ns, <<>>)>>
    [] op = "connect" -> <<>>
    [] op = "disconnect" -> <<Cmd("QUIT", ns, <<>>)>>

\* a repository runs one of its operations
Operate ==
  /\ last = Idle
  /\ \E ns \in Namespaces, op \in Operations :
       \E ids \in (IF op \in {"get", "exists"} THEN {<<id>> : id \in KeyIds}
                    ELSE IF op = "getMany" THEN IdBatches ELSE {<<>>}),
          keys \in (IF op \in {"getAll", "stats"} THEN ScanOrders(store[ns])
                     ELSE {<<>>}) :
         /\ last' = [op |-> op, ns |-> ns, ids |-> ids, keys |-> keys,
                     commands |-> CommandsOf(op, ns, store, ids, keys)]
         /\ store' = RedisApplyAll(store, CommandsOf(op, ns, store, ids, keys))
         /\ UNCHANGED proc

FrameNext ==
  \/ Deliver
  \/ ProducerWrite
  \/ ProducerDelete
  \/ Operate

FrameSpec == Init /\ [][FrameNext]_vars

(***************************************************************************)
(* The key space of Redis.  Both repositories use one database; a key is   *)
(* the repository's prefix followed by the identifier, a scan matches the  *)
(* keys that start with the prefix, and the identifier of a scanned key is *)
(* the key with the prefix removed.                                        *)
(***************************************************************************)
\* config.redis.keyPrefix: the default of env.js and the documented value
DefaultPrefix == <<"g", "p", "s", ":", "l", "a", "s", "t">>
DocumentedPrefix == DefaultPrefix \o <<":">>
ConfiguredPrefixes == {DefaultPrefix, DocumentedPrefix}

\* this.keyPrefix of the mobile repository
MobilePrefix == <<"m", "o", "b", "i", "l", "e", ":", "l", "a", "s", "t", ":">>

\* mutation of KeyPrefix: the mobile repository built on the configured prefix
KeyPrefixShared(ns, configured) == configured

\* the prefix a repository builds its keys and its scan pattern with
KeyPrefix(ns, configured) == IF ns = "gps" THEN configured ELSE MobilePrefix

\* the keys producers write (README: gps:last:<id>, mobile:last:<id>)
ProducerKey(ns, id) ==
  (IF ns = "gps" THEN DocumentedPrefix ELSE MobilePrefix) \o id
FlatKeys == {ProducerKey(ns, id) : ns \in Namespaces, id \in KeyIds}

\* KEYS prefix*: the keys that start with the prefix
StartsWith(key, prefix) ==
  Len(key) >= Len(prefix) /\ SubSeq(key, 1, Len(prefix)) = prefix

\* key.replace(prefix, '') of a scanned key
StripPrefix(key, prefix) == SubSeq(key, Len(prefix) + 1, Len(key))

\* what a repository with this prefix finds under `${prefix}${id}`
KeyspaceView(prefix, db) ==
  [id \in {StripPrefix(k, prefix) : k \in {j \in DOMAIN db : StartsWith(j, prefix)}}
     |-> db[prefix \o id]]

\* the reply of KEYS prefix*, as identifiers, in the order of the server
RECURSIVE InOrder(_)
InOrder(ids) ==
  IF ids = {} THEN <<>>
  ELSE LET id == CHOOSE x \in ids : TRUE IN <<id>> \o InOrder(ids \ {id})
ScanReply(ks) == InOrder({id \in DOMAIN ks : ks[id] # Absent})

\* the answer of each engine operation of a repository
FlatOperations == {"get", "exists", "getMany", "getAll", "stats"}
OperationResult(op, ns, ks) ==
  CASE op = "get" -> [id \in KeyIds |-> getLastPosition(ns, ks, id, NoFail)]
    [] op = "exists" -> [id \in KeyIds |-> hasLastPosition(ks, id, NoFail)]
    [] op = "getMany" ->
         [ids \in IdBatches |-> getMultipleLastPositions(ns, ks, ids, NoFail)]
    [] op = "getAll" -> getAllLastPositions(ns, ks, ScanReply(ks), NoFail)
    [] op = "stats" -> Len(ScanReply(ks))

FlatInit ==
  /\ store = [k \in FlatKeys |-> Absent]
  /\ last = Idle
  /\ proc = Booted

\* a producer sets or replaces a key
FlatProducerWrite ==
  /\ last = Idle
  /\ \E ns \in Namespaces, id \in KeyIds :
       \E v \in ProducerValues(ns, id) :
         /\ store[ProducerKey(ns, id)] # v
         /\ store' = [store EXCEPT ![ProducerKey(ns, id)] = v]
         /\ UNCHANGED <<last, proc>>

\* a producer deletes a key
FlatProducerDelete ==
  /\ last = Idle
  /\ \E k \in FlatKeys :
       /\ store[k] # Absent
       /\ store' = [store EXCEPT ![k] = Absent]
       /\ UNCHANGED <<last, proc>>

\* a repository answers an operation over the database
FlatOperate ==
  /\ last = Idle
  /\ \E ns \in Namespaces, configured \in ConfiguredPrefixes, op \in FlatOperations :
       /\ last' = [op |-> op, ns |-> ns, configured |-> configured,
                   result |-> OperationResult(op, ns,
                                KeyspaceView(KeyPrefix(ns, configured), store))]
       /\ UNCHANGED <<store, proc>>

FlatNext ==
  \/ Deliver
  \/ FlatProducerWrite
  \/ FlatProducerDelete
  \/ FlatOperate

FlatSpec == FlatInit /\ [][FlatNext]_vars

(***************************************************************************)
(* The documented mobile record.  README Mobile stores a user's position   *)
(* as a hash with, besides the common fields, deviceInfo, appVersion,      *)
(* batteryLevel and networkType.                                           *)
(***************************************************************************)
MobileFields == {"deviceInfo", "appVersion", "batteryLevel", "networkType"}

\* the hash of README Mobile for a user, with some of the mobile fields
MobileHash(id, extra) ==
  RHash([name \in {"userId", "lat", "lng", "metadata"} \cup extra |->
           CASE name = "userId" -> Raw(id)
             [] name = "lat" -> NumText(1)
             [] name = "lng" -> NumText(2)
             [] name = "metadata" -> Json(Num(5))
             [] name = "deviceInfo" -> Json(Str(<<"iOS">>))
             [] name = "batteryLevel" -> NumText(85)
             [] OTHER -> Raw(<<"5G">>)])

\* HSET mobile:last:<id> field value ...
ProducerHSet ==
  /\ last = Idle
  /\ \E id \in KeyIds, extra \in SUBSET MobileFields :
       /\ store["mobile"][id] # MobileHash(id, extra)
       /\ store' = [store EXCEPT !["mobile"][id] = MobileHash(id, extra)]
       /\ UNCHANGED <<last, proc>>

MobileNext ==
  \/ Deliver
  \/ ProducerHSet
  \/ ProducerDelete
  \/ GetLastPosition

MobileSpec == Init /\ [][MobileNext]_vars

(***************************************************************************)
(* Properties.                                                             *)
(***************************************************************************)
\* the identifier a lookup of the latest request resolves after trimming
CleanId == Trim(last.id.s)

\* the latest request is a lookup that the service answered with a record
\* in the full view
GotFullRecord ==
  /\ last.op = "get"
  /\ last.format = "full"
  /\ last.resp.success

\* C1: a record returned by a single lookup (the store's get, shown in the
\* full view) carries the identifier it was looked up by, whatever the
\* stored payload says.
C1_EntityIdIsRequestedId ==
  GotFullRecord => IdOf(last.ns, last.resp.data) = Str(CleanId)

\* a present, non-empty identifier
NonEmptyId(v) == v.t = "string" /\ v.s # <<>>

\* C2: every record returned by get, getMany or getAll has a present and
\* non-empty identifier, and a key holding the empty string is answered as
\* not existing.
C2_EntityIdPresent ==
  /\ GotFullRecord => NonEmptyId(IdOf(last.ns, last.resp.data))
  /\ (last.op = "multiple" /\ last.format = "full" /\ last.resp.success)
       => \A i \in 1..Len(last.resp.data) :
            NonEmptyId(IdOf(last.ns, last.resp.data[i]))
  /\ (last.op = "all" /\ last.resp.success)
       => \A i \in 1..Len(last.resp.data) : NonEmptyId(last.resp.data[i].id)
  /\ (last.op = "get" /\ last.resp.ops > 0 /\ last.fail = NoFail
       /\ ValueAt(store[last.ns], CleanId) = RString(EmptyText))
       => last.resp.code = "POSITION_NOT_FOUND"

\* the latest request is a batch lookup that was answered successfully
BatchAnswered == last.op = "multiple" /\ last.resp.success

\* C3: in every successful batch lookup found + notFound = requested, and
\* notFound is the length of the not-found list.
C3_SummaryAddsUp ==
  BatchAnswered =>
    /\ last.resp.summary.found + last.resp.summary.notFound
         = last.resp.summary.requested
    /\ last.resp.summary.notFound = Len(last.resp.summary.notFoundIds)

\* what a single get of an id yields under the latest request's conditions
SingleGet(id) == getLastPosition(last.ns, store[last.ns], id, last.fail)

\* a single get of the id returns a record
HasRecord(id) == SingleGet(id).k = "return" /\ SingleGet(id).v # Null

\* C4: a batch that reaches the store returns normally, and its records are
\* exactly the records single gets return, id by id, in order; an id whose
\* lookup fails contributes nothing and changes nothing for the others.
C4_BatchIsolation ==
  (last.op = "multiple" /\ last.resp.ops > 0) =>
    LET hits == SelectSeq(CleanEntries(last.ids.items), HasRecord)
    IN /\ last.resp.success
       /\ last.resp.data
            = [i \in 1..Len(hits) |-> Project(last.ns, SingleGet(hits[i]).v, last.format)]

\* a batch over a key with a malformed blob and a key with a good record:
\* the first lookup raises, the second record is returned
C4_Witness ==
  /\ BatchAnswered
  /\ last.ids = Array(<<Str(Id1), Str(Id2)>>)
  /\ store[last.ns][Id1] = RString(Malformed)
  /\ SingleGet(Id1).k = "throw"
  /\ HasRecord(Id2)
  /\ Len(last.resp.data) = 1

\* C5: the not-found list of a successful batch is exactly the requested
\* ids for which no record is returned.
C5_NotFoundIsMissing ==
  BatchAnswered =>
    LET norecord(id) == ~HasRecord(id)
    IN last.resp.summary.notFoundIds
         = SelectSeq(CleanEntries(last.ids.items), norecord)

\* the latest request is a batch lookup over a collection
BatchOverArray == last.op = "multiple" /\ last.ids.t = "array"

\* C6: a batch of more than 100 entries is rejected with an error and no
\* storage operation, whatever its entries.
C6_OverCeilingRejected ==
  (BatchOverArray /\ Len(last.ids.items) > 100) =>
    /\ ~last.resp.success
    /\ last.resp.status # 200
    /\ last.resp.ops = 0

\* 101 valid ids sent straight to the service: rejected as too many
C6_Witness ==
  /\ BatchOverArray
  /\ last.via = "service"
  /\ Len(last.ids.items) = 101
  /\ \A i \in 1..101 : last.ids.items[i] = Str(Id1)
  /\ last.resp.code = TooManyCode(last.ns)
  /\ last.resp.ops = 0

\* an identifier that breaks the business rules (non-empty string of at
\* most 100 characters of [A-Za-z0-9._-])
BreaksIdRules(idv) ==
  \/ idv.t # "string"
  \/ Trim(idv.s) = <<>>
  \/ Len(idv.s) > 100
  \/ \E i \in 1..Len(idv.s) : idv.s[i] \notin ValidChars

\* C7: if any entry of a batch is invalid the whole batch fails, the
\* failure lists every offending entry, and no id is looked up.
C7_AllOrNothing ==
  (BatchOverArray /\ \E i \in 1..Len(last.ids.items) : BreaksIdRules(last.ids.items[i])) =>
    /\ ~last.resp.success
    /\ last.resp.ops = 0
    /\ last.resp.details = SelectSeq(last.ids.items, BreaksIdRules)

\* C8: the service itself rejects an identifier longer than 100 characters
\* or with a character outside [A-Za-z0-9._-], before any storage access.
C8_ServiceEnforcesIdRules ==
  /\ (last.op = "get" /\ last.via = "service" /\ BreaksIdRules(last.id)) =>
       /\ ~last.resp.success
       /\ last.resp.code = InvalidIdCode(last.ns)
       /\ last.resp.ops = 0
  /\ (BatchOverArray /\ last.via = "service"
       /\ \E i \in 1..Len(last.ids.items) : BreaksIdRules(last.ids.items[i])) =>
       /\ ~last.resp.success
       /\ last.resp.code = InvalidIdsCode(last.ns)
       /\ last.resp.ops = 0

\* the codes a single lookup answers a request-shape error with
ValidationCodes(ns) ==
  {MissingIdCode(ns), InvalidIdCode(ns), IdTooLongCode(ns), IdCharsCode(ns)}

\* the latest single lookup was admitted by validation
Admitted ==
  /\ last.op = "get"
  /\ ~BlankId(last.id)
  /\ last.via = "http" => validateIdMiddleware(last.ns, last.id) = "next"

\* the store's get behind the latest single lookup
StoreGet == getLastPosition(last.ns, store[last.ns], CleanId, last.fail)

ListingLimit ==
  IF last.via = "service" THEN last.limit
  ELSE IF last.limit = Undef THEN Null ELSE parseInt(last.limit)
ListingOffset ==
  IF last.via = "service" THEN last.offset
  ELSE IF last.offset = Undef THEN Num(0) ELSE parseInt(last.offset)

\* the projected records of the latest listing, in scan order
Projected ==
  LET recs == getAllLastPositions(last.ns, store[last.ns], last.keys, last.fail).v
  IN [i \in 1..Len(recs) |-> ProjectListing(last.ns, recs[i])]

\* C10: with limit L in 1..1000 and offset O >= 0 a listing returns exactly
\* the projected records at positions O .. O+L-1 of the scan order; total
\* counts all resolved records and returned is the length of data.
C10_Pagination ==
  (last.op = "all" /\ last.resp.success /\ ListingLimit # Null) =>
    LET L == ListingLimit.n
        O == ListingOffset.n
    IN /\ L \in 1..1000 /\ O >= 0
       /\ Len(last.resp.data) = Max(0, Min(L, Len(Projected) - O))
       /\ \A i \in 1..Len(last.resp.data) : last.resp.data[i] = Projected[O + i]
       /\ last.resp.summary.total = Len(Projected)
       /\ last.resp.summary.returned = Len(last.resp.data)

\* two records, limit 1, offset 1: the second record of the scan is returned
C10_Witness ==
  /\ last.op = "all"
  /\ last.resp.success
  /\ ListingLimit = Num(1)
  /\ ListingOffset = Num(1)
  /\ Len(Projected) = 2
  /\ last.resp.data = <<Projected[2]>>
  /\ Projected[1] # Projected[2]

\* the latest request is an existence check admitted by validation
ExistsAdmitted ==
  /\ last.op = "exists"
  /\ ~BlankId(last.id)
  /\ last.via = "http" => validateIdMiddleware(last.ns, last.id) = "next"

\* the key has content for its physical type
NonEmptyContent(v) ==
  \/ v.type = "hash" /\ DOMAIN v.fields # {}
  \/ v.type = "string" /\ v.val # EmptyText
  \/ v.type = "list" /\ v.elems # <<>>
  \/ v.type = "zset" /\ v.members # {}

\* C11: exists(id) answers true only for a key that is present with
\* non-empty content of a supported type, also in executions where the type
\* probe or the content probe fails.
C11_ExistsOnlyWithContent ==
  (ExistsAdmitted /\ last.resp.success /\ last.resp.exists = Bool(TRUE))
    => NonEmptyContent(ValueAt(store[last.ns], CleanId))

\* C12: an existence check of a valid id whose key does not exist, with
\* EXISTS answering, is a success with exists = false.
C12_MissingIsSuccess ==
  (ExistsAdmitted /\ ValueAt(store[last.ns], CleanId) = Absent
     /\ FailAt(last.fail, CleanId) # 1)
    => /\ last.resp.success
       /\ last.resp.exists = Bool(FALSE)
       /\ last.resp.code = ""
       /\ last.via = "http" => last.resp.status = 200

\* the existence of a missing key is asked through the route
C12_Witness ==
  /\ ExistsAdmitted
  /\ last.via = "http"
  /\ last.id = Str(Id2)
  /\ store[last.ns][Id2] = Absent
  /\ store[last.ns][Id1] # Absent
  /\ last.resp.status = 200
  /\ last.resp.exists = Bool(FALSE)

\* the keyspace with every key of an unsupported type removed
WithoutUnsupported(ks) ==
  [id \in DOMAIN ks |-> IF ks[id].type = "set" THEN Absent ELSE ks[id]]

\* the keys of an unsupported type in the latest request's namespace
UnsupportedKeys == {id \in KeyIds : store[last.ns][id].type = "set"}

\* the answer to the latest request over another keyspace of its namespace
Replay(ks) ==
  CASE last.op = "get" ->
         IF last.via = "http"
         THEN RouteGetLastPosition(last.ns, ks, last.id, last.format, last.fail)
         ELSE Response(0, getEntityLastPosition(last.ns, ks, last.id, last.format, last.fail))
    [] last.op = "exists" ->
         IF last.via = "http"
         THEN RouteCheckExists(last.ns, ks, last.id, last.fail)
         ELSE ExistsResponse(0, checkEntityExists(last.ns, ks, last.id, last.fail))
    [] last.op = "multiple" ->
         IF last.via = "http"
         THEN RouteGetMultiple(last.ns, ks, last.ids, last.format, last.fail)
         ELSE Response(0, getMultipleEntitiesLastPositions(last.ns, ks, last.ids, last.format, last.fail))
    [] last.op = "all" ->
         LET live(id) == ks[id] # Absent
         IN IF last.via = "http"
            THEN RouteGetAll(last.ns, ks, SelectSeq(last.keys, live), last.limit,
                             last.offset, last.fail)
            ELSE Response(0, getAllEntitiesLastPositions(last.ns, ks,
                               SelectSeq(last.keys, live), last.limit, last.offset,
                               last.fail))

\* two answers agree on everything but the storage operations behind them
SameOutcome(a, b) == [a EXCEPT !.ops = 0] = [b EXCEPT !.ops = 0]

\* the latest request ran over a keyspace holding a key of an unsupported
\* type whose commands all answered
OverUnsupported ==
  /\ last.op \in {"get", "exists", "multiple", "all"}
  /\ UnsupportedKeys # {}
  /\ \A id \in UnsupportedKeys : FailAt(last.fail, id) = 0

\* C13: a key of an unsupported type decodes to null without raising, and
\* every request is answered as if that key were absent: NOT_FOUND for a
\* single lookup, exists = false for an existence check, and the same batch
\* and listing answers.
C13_UnsupportedIsAbsent ==
  OverUnsupported =>
    /\ \A id \in UnsupportedKeys :
         /\ getDataByType(last.ns, store[last.ns][id], id, 0, 2) = Ret(Null, 3)
         /\ getLastPosition(last.ns, store[last.ns], id, last.fail) = Ret(Null, 3)
    /\ SameOutcome(last.resp, Replay(WithoutUnsupported(store[last.ns])))

\* a batch over a set-typed key and a good record
C13_Witness ==
  /\ OverUnsupported
  /\ last.op = "multiple"
  /\ last.ids = Array(<<Str(Id1), Str(Id2)>>)
  /\ last.resp.success
  /\ last.resp.summary.notFoundIds = <<Id1>>
  /\ Len(last.resp.data) = 1

\* the content the decoder parses is not JSON: the blob of a string, the
\* metadata field of a hash, the element LINDEX reads, the member ZREVRANGE
\* reads
MalformedContent(v) ==
  CASE v.type = "string" -> v.val = Malformed
    [] v.type = "hash" -> "metadata" \in DOMAIN v.fields /\ v.fields["metadata"] = Malformed
    [] v.type = "list" -> LIndexLast(v.elems) = [t |-> "text", txt |-> Malformed]
    [] v.type = "zset" -> ZRevRange00(v.members) = <<Malformed>>
    [] OTHER -> FALSE

\* C14: when the content of a key is malformed, the store's get raises
\* instead of returning null, and an admitted single lookup answers with an
\* error that is not NOT_FOUND (and not a success).
C14_MalformedRaises ==
  (Admitted /\ MalformedContent(ValueAt(store[last.ns], CleanId))) =>
    /\ StoreGet.k = "throw"
    /\ ~last.resp.success
    /\ last.resp.code = "INTERNAL_ERROR"
    /\ last.resp.code # "POSITION_NOT_FOUND"
    /\ last.via = "http" => last.resp.status \notin {200, 404}

\* a single lookup through the route of a key whose blob is not JSON, with
\* every storage command answering
C14_Witness ==
  /\ Admitted
  /\ last.via = "http"
  /\ last.fail = NoFail
  /\ ValueAt(store[last.ns], CleanId) = RString(Malformed)
  /\ last.resp.code = "INTERNAL_ERROR"

\* the same for a list, a sorted set and a hash
C14_WitnessEncodings ==
  /\ Admitted
  /\ last.fail = NoFail
  /\ ValueAt(store[last.ns], CleanId).type \in {"list", "zset", "hash"}
  /\ MalformedContent(ValueAt(store[last.ns], CleanId))
  /\ last.resp.code = "INTERNAL_ERROR"

\* the answer the store's get gives for a list holding one element only
GetOfElement(e) ==
  getLastPosition(last.ns, [store[last.ns] EXCEPT ![CleanId] = RList(<<e>>)],
                  CleanId, last.fail)

\* C15: after any sequence of LPUSH commands of the producer, the store's
\* get of a list key returns the record parsed from the element pushed most
\* recently (the head of the list), never an older one.
C15_NewestElement ==
  (/\ Admitted
   /\ last.fail = NoFail
   /\ ValueAt(store[last.ns], CleanId).type = "list") =>
    StoreGet = GetOfElement(Head(ValueAt(store[last.ns], CleanId).elems))

\* the property names of an object
Keys(obj) == DOMAIN obj \ {"t"}

\* C16: the gps projection of a position record has exactly the keys id,
\* lat and lng, with the record's identifier and coordinates; projecting
\* returns (never raises) and leaves the record as it was for every view
\* name, and an unrecognised view returns the record itself.
C16_GpsView ==
  last.op = "project" =>
    /\ last.call.k = "return"
    /\ last.call.position = last.position
    /\ (last.ns = "gps" /\ last.view = "gps") =>
         /\ Keys(last.call.v) = {"id", "lat", "lng"}
         /\ last.call.v.id = IdOf("gps", last.position)
         /\ last.call.v.lat = last.position.lat
         /\ last.call.v.lng = last.position.lng
    /\ (last.ns = "gps" /\ last.view \notin {"gps", "mobile"}) =>
         last.call.v = last.position

\* a gps projection of a record that carries a name
C16_Witness ==
  /\ last.op = "project"
  /\ last.ns = "gps"
  /\ last.view = "gps"
  /\ last.position.name = Str(Label)
  /\ last.call.v.id = Str(Id1)

\* a display name is set when it is a non-empty string
NameSet(position) == position.name.t = "string" /\ position.name.s # <<>>

\* C17: the mobile projection of a position record, in the device service
\* and in the mobile service, has exactly the keys id, lat, lng and name;
\* name is the record's name when one is set and the record's identifier
\* otherwise, in particular when the name is null.
C17_MobileView ==
  (last.op = "project" /\ last.view = "mobile") =>
    /\ Keys(last.call.v) = {"id", "lat", "lng", "name"}
    /\ last.call.v.id = IdOf(last.ns, last.position)
    /\ last.call.v.lat = last.position.lat
    /\ last.call.v.lng = last.position.lng
    /\ last.call.v.name = IF NameSet(last.position) THEN last.position.name
                          ELSE IdOf(last.ns, last.position)

\* the mobile service projects a record whose name is null
C17_Witness ==
  /\ last.op = "project"
  /\ last.ns = "mobile"
  /\ last.position.name = Null
  /\ last.call.v.name = Str(Id2)

\* C18: the health operation answers healthy = false whenever the ping
\* did not answer PONG, whatever the keys stored, and healthy = true only
\* when it did; the route answers 503 exactly when healthy is false (and
\* 200 otherwise).
C18_HealthFollowsPing ==
  last.op = "health" =>
    /\ last.probe # "PONG" => ~last.resp.healthy
    /\ last.resp.healthy => ping(last.probe)
    /\ last.via = "http" =>
         /\ last.resp.status = 503 <=> ~last.resp.healthy
         /\ last.resp.status = 200 <=> last.resp.healthy

\* records are stored and counted, the ping raised: 503, unhealthy
C18_Witness ==
  /\ last.op = "health"
  /\ last.via = "http"
  /\ last.probe = "raise"
  /\ last.scan = "ok"
  /\ Len(last.keys) = 2
  /\ last.resp.total = Num(2)
  /\ ~last.resp.healthy
  /\ last.resp.status = 503

\* the keys of the latest request's namespace, and those of them whose
\* MEMORY USAGE call answered
ScannedKeys == {id \in KeyIds : store[last.ns][id] # Absent}
AccountedKeys == {id \in ScannedKeys : last.mem[id].k = "return"}

\* the sum of the accounting results over a set of keys, null counting 0
RECURSIVE Accounted(_)
Accounted(ids) ==
  IF ids = {} THEN 0
  ELSE LET id == CHOOSE x \in ids : TRUE
       IN (IF last.mem[id].v = Null THEN 0 ELSE last.mem[id].v.n)
            + Accounted(ids \ {id})

\* the repository's getStats behind the latest statistics request
StoreStats == getStats(last.ns, last.keys, last.scan, last.mem)

\* C19: when connect and the prefix scan answer, getStats returns, whatever
\* subset of the MEMORY USAGE calls raised: the count is the number of keys
\* the scan matched and the memory figure is the sum of the results of the
\* calls that answered; the service and the route answer success.
C19_StatsTolerateMemoryFailures ==
  (last.op = "stats" /\ last.scan = "ok") =>
    /\ StoreStats.k = "return"
    /\ Total(last.ns, StoreStats.v) = Cardinality(ScannedKeys)
    /\ StoreStats.v.memoryUsage = Accounted(AccountedKeys)
    /\ last.resp.success
    /\ last.resp.stats = StoreStats.v
    /\ last.via = "http" => last.resp.status = 200

\* two keys, the accounting of the first raised, that of the second answered
C19_Witness ==
  /\ last.op = "stats"
  /\ last.scan = "ok"
  /\ ScannedKeys = {Id1, Id2}
  /\ AccountedKeys = {Id2}
  /\ last.mem[Id2].v = Num(Usage(Id2))
  /\ last.resp.success
  /\ last.resp.stats.memoryUsage = Usage(Id2)

\* every repository is as disconnect() leaves it
AllReleased ==
  \A r \in Repositories : proc.isConnected = disconnect(proc.isConnected, r)

\* C20: when the process has exited after SIGTERM or SIGINT, the connection
\* of every repository that was opened has been released by disconnect().
C20_ReleasedOnShutdown ==
  (proc.phase = "exited" /\ proc.signal \in Signals) => AllReleased

\* the latest request is a listing answered while Redis was unreachable
ListingDown == last.op = "all" /\ "status" \in DOMAIN last

\* the listing half of C21, which the code satisfies
ListingDownFails == ListingDown => ~last.resp.success

\* C21: a batch lookup or a full listing that runs while the connection
\* to the store is unavailable is answered with a failure, never with a
\* success that reports the ids as not found or an empty listing.
C21_OutageIsFailure ==
  (last.op \in {"multiple", "all"} /\ "status" \in DOMAIN last) =>
    ~last.resp.success

\* C22: no operation of a repository changes the database: a step that
\* starts an operation leaves every key with the type and value it had;
\* only producers change them.
C22_EngineNeverWrites ==
  [][(last = Idle /\ last' # Idle) => store' = store]_vars

\* a listing over a list and another key has sent its reads
C22_Witness ==
  /\ last # Idle
  /\ last.op = "getAll"
  /\ Len(last.keys) = 2
  /\ \E i \in 1..Len(last.commands) : last.commands[i].cmd = "LINDEX"
  /\ Len(last.commands) = 7

OtherNamespace(ns) == IF ns = "gps" THEN "mobile" ELSE "gps"

\* the database after the key of x in a namespace is created, changed or
\* deleted
Rewritten(ns) ==
  UNION {{[store EXCEPT ![ProducerKey(ns, id)] = v] :
            v \in ProducerValues(ns, id) \cup {Absent}} : id \in KeyIds}

\* C23: creating, changing or deleting the key of any identifier in one
\* namespace changes the answer of no operation (get, getMany, getAll,
\* exists, stats) of the other namespace, in both directions.  (The
\* database only changes between requests.)
C23_NamespacesIndependent ==
  last = Idle =>
    \A ns \in Namespaces, configured \in ConfiguredPrefixes, op \in FlatOperations :
      \A db \in Rewritten(OtherNamespace(ns)) :
        OperationResult(op, ns, KeyspaceView(KeyPrefix(ns, configured), db))
          = OperationResult(op, ns, KeyspaceView(KeyPrefix(ns, configured), store))

\* the mobile key of an identifier holds a record, its device key does not
\* exist, and the device repository has answered that it found nothing
C23_Witness ==
  /\ last # Idle
  /\ "configured" \in DOMAIN last
  /\ last.op = "get"
  /\ last.ns = "gps"
  /\ last.configured = DocumentedPrefix
  /\ store[ProducerKey("mobile", Id1)] # Absent
  /\ store[ProducerKey("gps", Id1)] = Absent
  /\ store[ProducerKey("gps", Id2)] # Absent
  /\ last.result[Id1] = Ret(Null, 2)
  /\ last.result[Id2].v # Null

\* C24: a single mobile lookup of a record stored as a hash answers, in
\* its full view, with every field the hash holds, the mobile fields
\* deviceInfo, appVersion, batteryLevel and networkType among them.
C24_MobileFieldsReturned ==
  (/\ Admitted
   /\ last.ns = "mobile"
   /\ last.fail = NoFail
   /\ ValueAt(store["mobile"], CleanId).type = "hash") =>
    /\ last.resp.success
    /\ \A name \in DOMAIN ValueAt(store["mobile"], CleanId).fields \cap MobileFields :
         last.resp.data[name] # Undef

(***************************************************************************)
(* API key.  The application mounts both routers behind the optional       *)
(* middleware; the requests carry the two headers the middlewares read.    *)
(***************************************************************************)
\* config.api.key: null unless API_KEY is set
ApiKey == <<"k">>
ConfiguredKeys == {Null, Str(ApiKey)}

\* the x-api-key and authorization headers of a request
KeyHeaders == {Undef, Str(<<>>), Str(ApiKey), Str(<<"x">>)}
AuthorizationHeaders ==
  {Undef, Str(<<"Bearer ", "k">>), Str(<<"Bearer ", "x">>), Str(ApiKey)}

\* String.prototype.replace('Bearer ', ''): the first occurrence is dropped
ReplaceBearer(s) ==
  IF \E i \in 1..Len(s) : s[i] = "Bearer "
  THEN LET i == CHOOSE i \in 1..Len(s) :
                  s[i] = "Bearer " /\ \A j \in 1..(i - 1) : s[j] # "Bearer "
       IN SubSeq(s, 1, i - 1) \o SubSeq(s, i + 1, Len(s))
  ELSE s

\* req.headers['x-api-key'] || req.headers['authorization']?.replace('Bearer ', '')
CarriedKey(xApiKey, authorization) ==
  IF xApiKey # Undef /\ xApiKey.s # <<>> THEN xApiKey
  ELSE IF authorization = Undef THEN Undef
  ELSE Str(ReplaceBearer(authorization.s))

\* a key is carried when the expression above is truthy
Carried(apiKey) == apiKey # Undef /\ apiKey.s # <<>>

\* authMiddleware: "next", or the code of its 401
authMiddleware(key, xApiKey, authorization) ==
  LET apiKey == CarriedKey(xApiKey, authorization)
  IN IF key = Null THEN "next"
     ELSE IF ~Carried(apiKey) THEN "MISSING_API_KEY"
     ELSE IF apiKey # key THEN "INVALID_API_KEY"
     ELSE "next"

\* optionalAuthMiddleware: always next(); only req.authenticated differs
optionalAuthMiddleware(key, xApiKey, authorization) == "next"

\* req.authenticated after optionalAuthMiddleware
Authenticated(key, xApiKey, authorization) ==
  LET apiKey == CarriedKey(xApiKey, authorization)
  IN IF key = Null THEN Undef
     ELSE IF ~Carried(apiKey) THEN Bool(FALSE)
     ELSE Bool(apiKey = key)

\* createApp: app.use('/api/v4/gps', optionalAuthMiddleware, gpsRoutes) and the
\* same for mobile
AppGetLastPosition(key, xApiKey, authorization, ns, ks, idv, fail) ==
  LET m == optionalAuthMiddleware(key, xApiKey, authorization)
  IN IF m # "next" THEN Response(401, Fail(m, 0))
     ELSE RouteGetLastPosition(ns, ks, idv, "full", fail)

\* a single lookup through the application
AppRequest ==
  /\ last = Idle
  /\ \E key \in ConfiguredKeys, xApiKey \in KeyHeaders,
        authorization \in AuthorizationHeaders,
        ns \in Namespaces, idv \in {Str(Id1), Str(Id2)} :
       /\ last' = [op |-> "get", ns |-> ns, via |-> "app", id |-> idv,
                   format |-> "full", fail |-> NoFail, key |-> key,
                   apiKey |-> CarriedKey(xApiKey, authorization),
                   authenticated |-> Authenticated(key, xApiKey, authorization),
                   resp |-> AppGetLastPosition(key, xApiKey, authorization,
                                               ns, store[ns], idv, NoFail)]
       /\ UNCHANGED <<store, proc>>

AuthNext == Deliver \/ ProducerWrite \/ ProducerDelete \/ AppRequest
AuthSpec == Init /\ [][AuthNext]_vars

\* the latest request went through the application with a key configured
KeyRequired == last.op = "get" /\ last.via = "app" /\ last.key # Null

\* C25: with an API key configured, a request to the GPS or mobile routes
\* without a key is answered MISSING_API_KEY and one with a wrong key
\* INVALID_API_KEY, before any controller or store call.
C25_KeyEnforced ==
  /\ (KeyRequired /\ ~Carried(last.apiKey)) =>
       /\ last.resp.status = 401
       /\ last.resp.code = "MISSING_API_KEY"
       /\ last.resp.ops = 0
  /\ (KeyRequired /\ Carried(last.apiKey) /\ last.apiKey # last.key) =>
       /\ last.resp.status = 401
       /\ last.resp.code = "INVALID_API_KEY"
       /\ last.resp.ops = 0

\* what the optional middleware does instead: the request is only marked
AuthenticatedOnlyMarked ==
  (KeyRequired /\ last.apiKey # last.key) =>
    /\ last.authenticated = Bool(FALSE)
    /\ last.resp.status # 401

(***************************************************************************)
(* Concurrent connect().  Several operations of one repository are in      *)
(* flight; each starts with connect(), which runs up to its await of       *)
(* client.connect() in one step and resumes when that promise settles.     *)
(* The client follows the status cycle of its library.                     *)
(***************************************************************************)
MaxCallers == 2
Callers == 1..MaxCallers

\* createRedisClient(): a new client, waiting (lazyConnect) or dialling
CreatedStatuses == {"wait", "connecting"}

\* the messages client.connect() rejects with
AlreadyMessage == <<"Redis is ", "already connecting", "/connected">>
ClosedMessage == <<"Connection is closed.">>

\* String.prototype.includes on a message
Includes(message, part) == \E i \in 1..Len(message) : message[i] = part

\* client.connect() rejects at once on a client that is connecting or connected
clientConnectRejects(status) == status \in {"connecting", "connect", "ready"}

\* mutation of the catch of connect(): every rejection is raised
connectCatchStrict(message) == "throw"

\* the catch of connect(): an "already" rejection returns the client
connectCatch(message) ==
  IF Includes(message, "already connecting") \/ Includes(message, "already connected")
  THEN "return"
  ELSE "throw"

\* the repository after construction: client null, isConnected false; no
\* operation in flight
Unconnected ==
  [client |-> "null", created |-> 0, isConnected |-> FALSE,
   pc |-> [c \in Callers |-> "idle"],
   found |-> [c \in Callers |-> "none"],
   pending |-> [c \in Callers |-> <<>>],
   got |-> [c \in Callers |-> 0]]

RaceInit ==
  /\ store = [ns \in Namespaces |-> [id \in KeyIds |-> Absent]]
  /\ last = Idle
  /\ proc = Unconnected

\* connect() up to its first await or return
ConnectCall ==
  \E c \in Callers, fresh \in CreatedStatuses :
    /\ proc.pc[c] = "idle"
    /\ LET created == IF proc.client = "null" THEN proc.created + 1 ELSE proc.created
           status == IF proc.client = "null" THEN fresh ELSE proc.client
           seen == [proc EXCEPT !.created = created, !.client = status,
                                !.found[c] = proc.client]
       IN proc' =
            IF status = "ready"
            THEN [seen EXCEPT !.isConnected = TRUE, !.pc[c] = "done", !.got[c] = created]
            ELSE IF ~proc.isConnected /\ status # "connecting"
            THEN IF clientConnectRejects(status)
                 THEN [seen EXCEPT !.pc[c] = "awaiting", !.pending[c] = AlreadyMessage]
                 ELSE [seen EXCEPT !.client = "connecting", !.pc[c] = "awaiting",
                                   !.pending[c] = <<"pending">>]
            ELSE [seen EXCEPT !.pc[c] = "done", !.got[c] = created]
    /\ UNCHANGED <<store, last>>

\* connect() after its await: the rest of the try block, or the catch
ConnectSettle ==
  \E c \in Callers :
    /\ proc.pc[c] = "awaiting"
    /\ proc.pending[c] # <<"pending">>
    /\ proc' =
         IF proc.pending[c] = <<"resolved">>
         THEN [proc EXCEPT !.isConnected = TRUE, !.pc[c] = "done", !.got[c] = proc.created]
         ELSE IF connectCatch(proc.pending[c]) = "return"
         THEN [proc EXCEPT !.isConnected = TRUE, !.pc[c] = "done", !.got[c] = proc.created]
         ELSE [proc EXCEPT !.pc[c] = "failed"]
    /\ UNCHANGED <<store, last>>

\* the operation ends; the next one of this caller may start
OperationEnds ==
  \E c \in Callers :
    /\ proc.pc[c] \in {"done", "failed"}
    /\ proc' = [proc EXCEPT !.pc[c] = "idle", !.found[c] = "none",
                            !.pending[c] = <<>>, !.got[c] = 0]
    /\ UNCHANGED <<store, last>>

\* the promises of client.connect() that are still open settle as s
SettleOpen(s) ==
  [c \in Callers |-> IF proc.pending[c] = <<"pending">> THEN s ELSE proc.pending[c]]

\* the socket is open
ClientConnect ==
  /\ proc.client = "connecting"
  /\ proc' = [proc EXCEPT !.client = "connect"]
  /\ UNCHANGED <<store, last>>

\* the server answered the ready check
ClientReady ==
  /\ proc.client = "connect"
  /\ proc' = [proc EXCEPT !.client = "ready", !.pending = SettleOpen(<<"resolved">>)]
  /\ UNCHANGED <<store, last>>

\* the connection fails or drops
ClientClose ==
  /\ proc.client \in {"connecting", "connect", "ready"}
  /\ proc' = [proc EXCEPT !.client = "close", !.pending = SettleOpen(ClosedMessage)]
  /\ UNCHANGED <<store, last>>

\* the client schedules a retry, dials again, or gives up
ClientRetry ==
  \E next \in {"reconnecting", "end"} :
    /\ proc.client = "close"
    /\ proc' = [proc EXCEPT !.client = next]
    /\ UNCHANGED <<store, last>>

ClientRedial ==
  /\ proc.client = "reconnecting"
  /\ proc' = [proc EXCEPT !.client = "connecting"]
  /\ UNCHANGED <<store, last>>

RaceNext ==
  \/ ConnectCall
  \/ ConnectSettle
  \/ OperationEnds
  \/ ClientConnect
  \/ ClientReady
  \/ ClientClose
  \/ ClientRetry
  \/ ClientRedial

RaceSpec == RaceInit /\ [][RaceNext]_vars

\* the caller called connect() on a client that was connecting or connected
FoundBusy(c) == proc.found[c] \in {"connecting", "connect", "ready"}

\* C26: an operation that calls connect() while the client is already
\* connecting or connected never fails in connect(): an "already
\* connecting/connected" rejection is absorbed, the operation goes on with
\* the one shared client, and a repository never creates a second client.
C26_RaceAbsorbed ==
  /\ proc.created <= 1
  /\ \A c \in Callers :
       /\ FoundBusy(c) => proc.pc[c] # "failed"
       /\ proc.pc[c] = "failed" => proc.pending[c] # AlreadyMessage
       /\ proc.pc[c] = "done" => proc.got[c] = 1

\* a caller was rejected as "already connecting/connected" and went on,
\* while another caller's connect() is still awaiting
C26_Witness ==
  \E c, d \in Callers :
    /\ c # d
    /\ proc.pc[c] = "done" /\ proc.pending[c] = AlreadyMessage /\ proc.got[c] = 1
    /\ proc.pc[d] = "awaiting"

(***************************************************************************)
(* Request timeout.  timeoutMiddleware arms a timer on the response and    *)
(* calls next(); the handler of a batch lookup awaits the service and      *)
(* then writes its answer.  The timer and the handler's completion come    *)
(* in either order.                                                        *)
(***************************************************************************)
\* the response object of a request: nothing written yet
NewRes == [headersSent |-> FALSE, sent |-> <<>>]

\* res.status(...).json(...): setting a header of a response whose headers
\* are sent raises ERR_HTTP_HEADERS_SENT, and nothing is written
resJson(res, response) ==
  IF res.headersSent THEN [raised |-> TRUE, res |-> res]
  ELSE [raised |-> FALSE,
        res |-> [headersSent |-> TRUE, sent |-> Append(res.sent, response)]]

\* the callback timeoutMiddleware gives to res.setTimeout
timeoutCallback(res) ==
  IF ~res.headersSent
  THEN resJson(res, Response(408, Fail("REQUEST_TIMEOUT", 0))).res
  ELSE res

\* controllers' getMultipleLastPositions after its await: the answer is
\* written in the try block; the catch writes a 500
controllerRespond(res, response) ==
  LET attempt == resJson(res, response)
  IN IF ~attempt.raised THEN [rejected |-> FALSE, res |-> attempt.res]
     ELSE LET handled == resJson(res, Response(500, Fail("INTERNAL_ERROR", 0)))
          IN [rejected |-> handled.raised, res |-> handled.res]

\* errorMiddleware on an error that is neither a JSON, a timeout nor a Redis
\* error: the generic 500
errorMiddleware(res) == resJson(res, Response(500, Fail("INTERNAL_ERROR", 0)))

\* the router either leaves the rejection of an async route handler
\* unhandled or forwards it to the error middleware
RouterForwards == BOOLEAN

\* process.on('unhandledRejection'): process.exit(1)
unhandledRejection(p) == [p EXCEPT !.phase = "exited", !.code = 1]

TimedBatches == {Array(<<>>), Array(<<Str(Id1)>>), Array(<<Str(Id1), Str(Id2)>>)}

\* POST /last/multiple arrives: timeoutMiddleware, the validation
\* middleware, then the handler up to its await
TimedRequest ==
  /\ last = Idle
  /\ proc.phase = "running"
  /\ \E ns \in Namespaces, idsv \in TimedBatches, fail \in FailPlans,
        forwards \in RouterForwards :
       LET m == validateMultipleMiddleware(ns, idsv)
       IN /\ last' = [op |-> "multiple", ns |-> ns, via |-> "timed", ids |-> idsv,
                      format |-> "full", fail |-> fail, forwards |-> forwards,
                      timer |-> "armed",
                      handler |-> IF m # MiddlewareNext THEN "done" ELSE "running",
                      res |-> IF m # MiddlewareNext
                              THEN resJson(NewRes, Response(400, m)).res
                              ELSE NewRes]
          /\ UNCHANGED <<store, proc>>

\* the timer of res.setTimeout fires
TimeoutFires ==
  /\ last # Idle
  /\ proc.phase = "running"
  /\ last.timer = "armed"
  /\ last' = [last EXCEPT !.timer = "fired", !.res = timeoutCallback(last.res)]
  /\ UNCHANGED <<store, proc>>

\* the service's promise settles and the handler writes its answer
HandlerCompletes ==
  /\ last # Idle
  /\ proc.phase = "running"
  /\ last.handler = "running"
  /\ LET out == controllerRespond(last.res,
                  ControllerGetMultiple(last.ns, store[last.ns], last.ids,
                                        "full", last.fail))
         final == IF out.rejected /\ last.forwards
                  THEN errorMiddleware(out.res).res
                  ELSE out.res
     IN /\ last' = [last EXCEPT !.handler = IF out.rejected THEN "rejected" ELSE "done",
                                !.res = final]
        /\ proc' = IF out.rejected /\ ~last.forwards
                   THEN unhandledRejection(proc)
                   ELSE proc
  /\ UNCHANGED store

\* the request is over: the handler has finished and the socket is released
RequestEnds ==
  /\ last # Idle
  /\ proc.phase = "running"
  /\ last.handler # "running"
  /\ last' = Idle
  /\ UNCHANGED <<store, proc>>

TimeoutNext ==
  \/ ProducerWrite
  \/ ProducerDelete
  \/ TimedRequest
  \/ TimeoutFires
  \/ HandlerCompletes
  \/ RequestEnds

TimeoutSpec == Init /\ [][TimeoutNext]_vars

\* at most one response is written for a request, in either order
AtMostOneResponse == last # Idle => Len(last.res.sent) <= 1

\* the timer that fires after the handler answered writes nothing
TimerAfterAnswer ==
  [][(last # Idle /\ last.timer = "armed" /\ last.res.headersSent /\ last' # Idle)
       => last'.res = last.res]_vars

\* C27: a request gets at most one response; when the timeout callback has
\* sent the 408, the handler's later completion writes nothing and raises no
\* unhandled error; when the handler has answered, the timeout callback
\* writes nothing.
C27_OneResponse ==
  /\ AtMostOneResponse
  /\ last # Idle => last.handler # "rejected"
  /\ proc.phase = "running"

(***************************************************************************)
(* Listing under churn.  getAllLastPositions is followed command by        *)
(* command: KEYS, then for each key of the reply EXISTS, TYPE and the      *)
(* typed read of getLastPosition.  Producers write and delete between any  *)
(* two commands.                                                           *)
(***************************************************************************)
\* what producers store while a listing runs: the first device of the
\* tracker fleet as a JSON string, a hash, or a set, which no lookup reads;
\* the other keys as JSON strings
ChurnValues(ns, id) ==
  IF ns = "gps" /\ id = Id1
  THEN { RString(Json(Payload(ns, Str(id), 1, Undef))),
         RHash([lat |-> NumText(1), lng |-> NumText(2)]),
         RSet }
  ELSE { RString(Json(Payload(ns, Str(id), 1, Undef))) }

\* getDataByType after its TYPE answered dataType, on the value the typed
\* read finds: a missing key reads as empty, another type is a WRONGTYPE error
lookupRead(ns, id, dataType, v) ==
  IF v = Absent THEN Ret(Null, 0)
  ELSE IF v.type # dataType THEN Throw("WRONGTYPE", 0)
  ELSE getLastPosition(ns, [k \in {id} |-> v], id, NoFail)

\* mutation of the loop of getAllLastPositions: no try/catch around a key
perKeyRethrow(outcome) ==
  IF outcome.k = "throw" THEN "raise"
  ELSE IF Truthy(outcome.v) THEN "push"
  ELSE "skip"

\* the loop of getAllLastPositions on the outcome of one key's lookup
perKey(outcome) ==
  IF outcome.k = "throw" THEN "skip"
  ELSE IF Truthy(outcome.v) THEN "push"
  ELSE "skip"

\* a producer sets or replaces a key, also while a listing runs
ChurnWrite ==
  \E ns \in Namespaces, id \in KeyIds :
    \E v \in ChurnValues(ns, id) :
      /\ store[ns][id] # v
      /\ IF last = Idle THEN TRUE ELSE ns = last.ns
      /\ store' = [store EXCEPT ![ns][id] = v]
      /\ last' = IF last = Idle THEN last
                 ELSE [last EXCEPT !.existed = @ \cup {id}]
      /\ UNCHANGED proc

\* a producer deletes a key, also while a listing runs
ChurnDelete ==
  \E ns \in Namespaces, id \in KeyIds :
    /\ store[ns][id] # Absent
    /\ IF last = Idle THEN TRUE ELSE ns = last.ns
    /\ store' = [store EXCEPT ![ns][id] = Absent]
    /\ UNCHANGED <<last, proc>>

\* getAllLastPositions up to the reply of KEYS
ScanKeys ==
  /\ last = Idle
  /\ \E ns \in Namespaces :
       \E keys \in ScanOrders(store[ns]) :
         /\ last' = [op |-> "all", ns |-> ns, via |-> "scan", keys |-> keys,
                     i |-> 1,
                     pc |-> IF Len(keys) = 0 THEN "done" ELSE "exists",
                     dataType |-> "none",
                     positions |-> <<>>, raised |-> FALSE,
                     atScan |-> [j \in 1..Len(keys) |-> store[ns][keys[j]].type],
                     atLookup |-> [j \in 1..Len(keys) |-> "pending"],
                     torn |-> {},
                     existed |-> {keys[j] : j \in 1..Len(keys)}]
         /\ UNCHANGED <<store, proc>>

\* the listing goes on to its next key, or returns
NextKey(l) ==
  IF l.i = Len(l.keys) THEN [l EXCEPT !.pc = "done"]
  ELSE [l EXCEPT !.i = @ + 1, !.pc = "exists"]

\* the key the listing is looking up
ScanKey == last.keys[last.i]

\* getLastPosition: EXISTS
LookupExists ==
  /\ last # Idle
  /\ last.pc = "exists"
  /\ LET v == store[last.ns][ScanKey]
         seen == [last EXCEPT !.atLookup[last.i] = v.type]
     IN last' = IF v = Absent THEN NextKey(seen) ELSE [seen EXCEPT !.pc = "type"]
  /\ UNCHANGED <<store, proc>>

\* getDataByType: TYPE
LookupType ==
  /\ last # Idle
  /\ last.pc = "type"
  /\ LET v == store[last.ns][ScanKey]
     IN last' = IF v.type \in {"string", "hash", "list", "zset"}
                THEN [last EXCEPT !.pc = "read", !.dataType = v.type]
                ELSE NextKey(last)
  /\ UNCHANGED <<store, proc>>

\* getDataByType: the typed read and the decoding, then the loop's push,
\* skip or catch
LookupRead ==
  /\ last # Idle
  /\ last.pc = "read"
  /\ LET v == store[last.ns][ScanKey]
         outcome == lookupRead(last.ns, ScanKey, last.dataType, v)
         seen == IF v.type # last.dataType
                 THEN [last EXCEPT !.torn = @ \cup {last.i}]
                 ELSE last
         todo == perKey(outcome)
     IN last' =
          IF todo = "raise" THEN [seen EXCEPT !.pc = "done", !.raised = TRUE]
          ELSE IF todo = "push"
          THEN NextKey([seen EXCEPT !.positions =
                          Append(@, [i |-> last.i, read |-> v, record |-> outcome.v])])
          ELSE NextKey(seen)
  /\ UNCHANGED <<store, proc>>

\* getAllLastPositions returns
ScanReturns ==
  /\ last # Idle
  /\ last.pc = "done"
  /\ last' = Idle
  /\ UNCHANGED <<store, proc>>

ChurnNext ==
  \/ ChurnWrite
  \/ ChurnDelete
  \/ ScanKeys
  \/ LookupExists
  \/ LookupType
  \/ LookupRead
  \/ ScanReturns

ChurnSpec == Init /\ [][ChurnNext]_vars

\* the indices of the scan reply whose key has a record in the result
Listed == {last.positions[n].i : n \in 1..Len(last.positions)}

\* the listing does not raise
NeverRaises == last # Idle => ~last.raised

\* a key that was absent at its lookup is omitted
DeletedOmitted ==
  last # Idle =>
    \A j \in 1..Len(last.keys) : last.atLookup[j] = "none" => j \notin Listed

\* a record of the result belongs to a key that existed during the listing,
\* and is the record of the value its read found
RecordsExisted ==
  last # Idle =>
    \A n \in 1..Len(last.positions) :
      LET p == last.positions[n]
      IN /\ last.keys[p.i] \in last.existed
         /\ p.read # Absent
         /\ p.record = getLastPosition(last.ns, [k \in {last.keys[p.i]} |-> p.read],
                                       last.keys[p.i], NoFail).v

\* C28: a listing interleaved with producer writes and deletes never
\* raises; a key of the scan reply that was deleted, or changed in type,
\* before its own lookup is omitted; every record belongs to a key that
\* existed during the listing.
C28_ChurnOmitted ==
  /\ NeverRaises
  /\ DeletedOmitted
  /\ last # Idle =>
       \A j \in 1..Len(last.keys) :
         (last.atLookup[j] \notin {"pending", last.atScan[j]}) => j \notin Listed
  /\ RecordsExisted

\* C28 (amended): a listing interleaved with producer writes and deletes
\* never raises; a key deleted before its own lookup is omitted, and so is a
\* key whose type at the typed read is not the type its lookup was answered;
\* a key that changed in type before its lookup is answered from the value
\* the lookup reads; every record belongs to a key that existed during the
\* listing.
C28_ChurnTolerated ==
  /\ NeverRaises
  /\ DeletedOmitted
  /\ last # Idle => \A j \in last.torn : j \notin Listed
  /\ RecordsExisted

\* a listing returned one key's record and omitted another whose type
\* changed during its lookup
C28_Witness ==
  /\ last # Idle
  /\ last.pc = "done"
  /\ last.torn # {}
  /\ Listed # {}

(***************************************************************************)
(* Existence against lookup, on the same database.                         *)
(***************************************************************************)
\* the store's get of the id the latest existence check asked for, on the
\* database as it is, with no I/O failure
GetOfChecked == getLastPosition(last.ns, store[last.ns], CleanId, NoFail)

\* C29: on an unchanging store with no I/O failure, exists(id) is true
\* exactly when get(id) returns a record; exists(id) true never comes with
\* get(id) returning null or raising.
C29_ExistsAgreesWithGet ==
  (ExistsAdmitted /\ last.fail = NoFail) =>
    /\ last.resp.success
    /\ last.resp.exists = Bool(TRUE)
         <=> (GetOfChecked.k = "return" /\ GetOfChecked.v # Null)

(***************************************************************************)
(* The offset of a listing, with and without a limit.                      *)
(***************************************************************************)
\* C30: a listing never returns any of the first offset projected records
\* of the scan order, with or without a limit: returned is at most
\* max(0, total - offset) and data starts at position offset + 1.
C30_OffsetSkipped ==
  (last.op = "all" /\ last.resp.success) =>
    LET O == ListingOffset.n
    IN /\ last.resp.summary.returned
            <= Max(0, last.resp.summary.total - last.resp.summary.offset.n)
       /\ \A i \in 1..Len(last.resp.data) :
            /\ O + i <= Len(Projected)
            /\ last.resp.data[i] = Projected[O + i]

====
